---------------------------- MODULE Spec2Model ----------------------------
(***************************************************************************)
(* systemd-boot-lifeboat: a model of src/systemd_boot_lifeboat.py.         *)
(*                                                                         *)
(* The state is the filesystem (payload files and boot entry descriptors,  *)
(* both keyed by absolute path), the process-wide Chroot stack with the    *)
(* process's real root, working directory and open directory handles, the  *)
(* DRY_RUN flag, and the position of the one thread of control: either a   *)
(* run of main() (Spec, SpecTwice) or a client that nests Chroot and       *)
(* FileTracker scopes (SpecScopes).                                        *)
(*                                                                         *)
(* Paths are records [dir, pre, base]: the directory, the lifeboat_<ts>_   *)
(* prefixes of the file name (outermost first) and the rest of the name.   *)
(* Environment failures (a refused syscall, removal, copy or write) are    *)
(* nondeterministic, drawn by the actions and counted against faultsLeft.  *)
(***************************************************************************)
EXTENDS Integers, Sequences, FiniteSets, TLC

VARIABLES
    fs,          \* payload files: absolute path -> content
    confs,       \* descriptor files: absolute path -> conf fields
    chroot,      \* [roots, root, cwd, fds]: Chroot.roots and the process's root state
    DRY_RUN,     \* the module global DRY_RUN
    faultsLeft,  \* environment failures that may still be injected
    runsLeft,    \* runs of main that may still be started
    pc,          \* position of the thread of control
    args,        \* arguments of the current run of main
    configs,     \* main: configs (get_bootctl_entries())
    default_config, \* main: default_config (a sequence of at most one Config)
    lifeboats,   \* main: lifeboats
    cand,        \* main: index of the lifeboat the match generator looks at next
    create,      \* create_lifeboat: [ts, skip, todo, new_args] of the call in progress
    tracker,     \* FileTracker.files of the open FileTracker scope
    exc,         \* the exception propagating ("none" when there is none)
    pre,         \* ghost: the filesystem when the current run started
    hist,        \* ghost: what the current run did
    last,        \* ghost: how the previous run ended
    scopes,      \* SpecScopes: the stack of open with-scopes
    trace        \* SpecScopes: syscalls of the last Chroot enter/exit

vars == <<fs, confs, chroot, DRY_RUN, faultsLeft, runsLeft, pc, args, configs,
          default_config, lifeboats, cand, create, tracker, exc,
          pre, hist, last, scopes, trace>>

(***************************************************************************)
(* Bounds of the model.                                                    *)
(***************************************************************************)
MaxTs == 3
MaxLifeboats == 2
MaxFaults == 1
MaxDepth == 3
MaxRuns == 2

(***************************************************************************)
(* Paths.                                                                  *)
(***************************************************************************)
Last(s) == s[Len(s)]
Front(s) == SubSeq(s, 1, Len(s) - 1)
Range(s) == {s[i] : i \in DOMAIN s}

P(dir, base) == [dir |-> dir, pre |-> <<>>, base |-> base]

\* A path under a root, as an absolute path (os.path resolution inside a chroot).
Join(root, path) ==
    IF root = "/" THEN path ELSE IF path = "/" THEN root ELSE root \o path

Abs(root, p) == [p EXCEPT !.dir = Join(root, p.dir)]

\* Config._lifeboat_path: dirname/lifeboat_<ts>_basename
LifeboatPath(p, ts) == [p EXCEPT !.pre = <<ts>> \o p.pre]

\* re.search(r'^lifeboat_(\d+)_', basename) finds a match
IsLifeboatPath(p) == p.pre # <<>>

\* Config.timestamp, on a path that is a lifeboat's
Timestamp(p) == Head(p.pre)

\* pretty_date: strftime to the minute
PrettyDate(ts) == "min" \o ToString(ts \div 60)

(***************************************************************************)
(* Directories that exist, by absolute path.  /a/b exists as well as /b, so *)
(* that "/b" names different directories under / and under /a.             *)
(***************************************************************************)
Dirs == {"/", "/efi", "/a", "/b", "/a/b"}


(***************************************************************************)
(* Syscalls.  A machine m is the chroot state plus n, the number of        *)
(* syscalls made so far in this operation, err, whether one has raised,    *)
(* ret, the handle the last open returned, and log, the syscalls made.     *)
(* f is the number of the syscall that the environment refuses (0: none).  *)
(* Once err is set every later step of the operation is skipped, as the    *)
(* code's try block is left by the exception.                              *)
(***************************************************************************)
Machine(ch) ==
    [roots |-> ch.roots, root |-> ch.root, cwd |-> ch.cwd, fds |-> ch.fds,
     n |-> 0, err |-> FALSE, ret |-> 0, log |-> <<>>]

ChrootOf(m) == [roots |-> m.roots, root |-> m.root, cwd |-> m.cwd, fds |-> m.fds]

Refused(m, f) == m.n + 1 = f

Raise(m) == [m EXCEPT !.n = @ + 1, !.err = TRUE]

Done(m, op, arg) == [m EXCEPT !.n = @ + 1, !.log = Append(@, [op |-> op, arg |-> arg])]

\* the lowest handle number that is not open
FreeFd(fds) == CHOOSE n \in 3..(3 + Cardinality(DOMAIN fds)) :
                  /\ n \notin DOMAIN fds
                  /\ \A k \in 3..(n - 1) : k \in DOMAIN fds

\* os.open(path, os.O_RDONLY) of a directory
SysOpen(m, f, path) ==
    IF m.err THEN m
    ELSE LET dir == Join(m.root, path)
             fd == FreeFd(m.fds)
         IN IF Refused(m, f) \/ dir \notin Dirs THEN Raise(m)
            ELSE [Done(m, "open", dir) EXCEPT
                     !.fds = [k \in DOMAIN m.fds \cup {fd} |->
                                 IF k = fd THEN dir ELSE m.fds[k]],
                     !.ret = fd]

\* os.fchdir(fd)
SysFchdir(m, f, fd) ==
    IF m.err THEN m
    ELSE IF Refused(m, f) \/ fd \notin DOMAIN m.fds THEN Raise(m)
    ELSE [Done(m, "fchdir", m.fds[fd]) EXCEPT !.cwd = m.fds[fd]]

\* os.chroot('.')
SysChroot(m, f) ==
    IF m.err THEN m
    ELSE IF Refused(m, f) THEN Raise(m)
    ELSE [Done(m, "chroot", m.cwd) EXCEPT !.root = m.cwd]

\* os.chdir('/')
SysChdir(m, f) ==
    IF m.err THEN m
    ELSE IF Refused(m, f) THEN Raise(m)
    ELSE [Done(m, "chdir", m.root) EXCEPT !.cwd = m.root]

\* os.close(fd)
SysClose(m, f, fd) ==
    IF m.err THEN m
    ELSE IF Refused(m, f) \/ fd \notin DOMAIN m.fds THEN Raise(m)
    ELSE [Done(m, "close", m.fds[fd]) EXCEPT
             !.fds = [k \in DOMAIN m.fds \ {fd} |-> m.fds[k]]]

\* Chroot.roots.append(Chroot.Root(fd=<the handle just opened>, path=path))
Push(m, path) ==
    IF m.err THEN m
    ELSE [m EXCEPT !.roots = Append(@, [fd |-> m.ret, path |-> path])]

(***************************************************************************)
(* Chroot.__enter__ and Chroot.__exit__.  The result is the new chroot     *)
(* state ch, skip (self.skip), err (a ChrootError was raised), n (syscalls *)
(* made) and log.                                                          *)
(***************************************************************************)
Outcome(m, skip) ==
    [ch |-> ChrootOf(m), skip |-> skip, err |-> m.err, n |-> m.n, log |-> m.log]

\* a test that forgets the process's own root
AlreadyOnTop(ch, filepath) == ch.roots # <<>> /\ Last(ch.roots).path = filepath

AlreadyIn(ch, filepath) ==
    \/ ch.roots # <<>> /\ Last(ch.roots).path = filepath
    \/ filepath = "/" /\ ch.roots = <<>>

\* lines 244-245: the first scope of a stack opens "/" and records it as its base
EnterBase(m, f) ==
    IF m.roots = <<>> THEN Push(SysOpen(m, f, "/"), "/") ELSE m

\* an enter that stays inside the scope it is in
EnterOuterSkipped(m, f) == m

\* lines 247-249: from inside another scope, back out to the base first
EnterOuter(m, f) ==
    IF ~m.err /\ Len(m.roots) > 1
    THEN SysChroot(SysFchdir(m, f, m.roots[1].fd), f)
    ELSE m

\* lines 251-253: into the directory just opened
EnterInto(m, f) == SysChdir(SysChroot(SysFchdir(m, f, m.ret), f), f)

ChrootEnter(ch, filepath, f) ==
    IF AlreadyIn(ch, filepath) THEN Outcome(Machine(ch), TRUE)
    ELSE Outcome(Push(EnterInto(SysOpen(EnterOuter(EnterBase(Machine(ch), f), f),
                                        f, filepath), f),
                      filepath),
                 FALSE)

\* line 265: roots.pop() and os.close of its handle
ExitPop(ch, f) ==
    SysClose([Machine(ch) EXCEPT !.roots = Front(ch.roots)], f, Last(ch.roots).fd)

\* an exit that returns to the base of the stack, whatever scope is below
ExitToBase(m, f) ==
    IF m.err THEN m
    ELSE IF m.roots = <<>> THEN [m EXCEPT !.err = TRUE]
    ELSE SysChdir(SysChroot(SysFchdir(m, f, m.roots[1].fd), f), f)

\* lines 266-268: back into the scope below; roots[-1] of an empty stack raises
ExitBack(m, f) ==
    IF m.err THEN m
    ELSE IF m.roots = <<>> THEN [m EXCEPT !.err = TRUE]
    ELSE SysChdir(SysChroot(SysFchdir(m, f, Last(m.roots).fd), f), f)

\* lines 270-271: only the base is left: it is popped and its handle closed
ExitBase(m, f) ==
    IF ~m.err /\ Len(m.roots) = 1
    THEN SysClose([m EXCEPT !.roots = <<>>], f, m.roots[1].fd)
    ELSE m

\* an exit that leaves the process where it is
ChrootExitSkipped(ch, skip, f) == Outcome(Machine(ch), TRUE)

ChrootExit(ch, skip, f) ==
    IF skip THEN Outcome(Machine(ch), TRUE)
    ELSE IF ch.roots = <<>> THEN Outcome([Machine(ch) EXCEPT !.err = TRUE], FALSE)
    ELSE Outcome(ExitBase(ExitBack(ExitPop(ch, f), f), f), FALSE)

\* The syscalls a fault-free enter or exit makes: the places where it can fail.
EnterPoints(ch, filepath) == 0..ChrootEnter(ch, filepath, 0).n
ExitPoints(ch, skip) == 0..ChrootExit(ch, skip, 0).n

\* Chroot state at rest: empty stack, process at its real root, no handles.
AtRest == [roots |-> <<>>, root |-> "/", cwd |-> "/", fds |-> <<>>]

(***************************************************************************)
(* Config.  A Config is a record of the dataclass's fields; a descriptor   *)
(* file holds what to_conf writes: the CONF_FIELDS, without the metadata.  *)
(* Payload fields hold paths, the other fields hold strings.               *)
(***************************************************************************)
FIELDS_WITH_FILES == {"linux", "initrd", "efi"}

LiteralFields == {"machine_id", "sort_key", "options", "devicetree",
                  "devicetree_overlay", "architecture"}

\* an ignore set that forgets the two fields create_lifeboat rewrites
IgnoreMetadataOnly == {"path", "root", "autosave", "is_default"}

EQUIVALENCY_IGNORE_FIELDS == {"path", "root", "autosave", "title", "version", "is_default"}

CONF_FIELDS == {"title", "version"} \cup LiteralFields \cup FIELDS_WITH_FILES

\* a descriptor that is written without its sort key
ToConfNoSortKey(c) ==
    [title |-> c.title, version |-> c.version, machine_id |-> c.machine_id,
     sort_key |-> <<>>, linux |-> c.linux, initrd |-> c.initrd, efi |-> c.efi,
     options |-> c.options, devicetree |-> c.devicetree,
     devicetree_overlay |-> c.devicetree_overlay, architecture |-> c.architecture]

\* Config.to_conf: the content fields, in the form the descriptor file keeps them
ToConf(c) ==
    [title |-> c.title, version |-> c.version, machine_id |-> c.machine_id,
     sort_key |-> c.sort_key, linux |-> c.linux, initrd |-> c.initrd, efi |-> c.efi,
     options |-> c.options, devicetree |-> c.devicetree,
     devicetree_overlay |-> c.devicetree_overlay, architecture |-> c.architecture]

\* what open(path, 'w') leaves before anything is written
EmptyConf ==
    [title |-> <<>>, version |-> <<>>, machine_id |-> <<>>, sort_key |-> <<>>,
     linux |-> <<>>, initrd |-> <<>>, efi |-> <<>>, options |-> <<>>,
     devicetree |-> <<>>, devicetree_overlay |-> <<>>, architecture |-> <<>>]

\* Config.from_bootctl on one entry the boot manager lists
FromBootctl(path, root, conf, isDefault) ==
    [path |-> path, root |-> root, autosave |-> FALSE, is_default |-> isDefault,
     title |-> conf.title, version |-> conf.version, machine_id |-> conf.machine_id,
     sort_key |-> conf.sort_key, linux |-> conf.linux, initrd |-> conf.initrd,
     efi |-> conf.efi, options |-> conf.options, devicetree |-> conf.devicetree,
     devicetree_overlay |-> conf.devicetree_overlay, architecture |-> conf.architecture]

\* Config.is_lifeboat
IsLifeboat(c) == IsLifeboatPath(c.path)

\* Config.__lt__
Lt(a, b) ==
    IF IsLifeboat(a) /\ IsLifeboat(b) THEN Timestamp(a.path) < Timestamp(b.path)
    ELSE IF IsLifeboat(a) /\ ~IsLifeboat(b) THEN FALSE
    ELSE FALSE \* self.path < other.path: never reached, main sorts lifeboats only

\* list.sort(reverse=True): stable, so elements that compare equal keep their order
RECURSIVE InsertDesc(_, _)
InsertDesc(sorted, x) ==
    IF sorted = <<>> THEN <<x>>
    ELSE IF Lt(Last(sorted), x) THEN Append(InsertDesc(Front(sorted), x), Last(sorted))
    ELSE Append(sorted, x)

\* a sort without reverse=True: oldest first
RECURSIVE SortForward(_)
SortForward(s) ==
    IF s = <<>> THEN <<>>
    ELSE IF \E i \in DOMAIN s : Lt(s[i], Head(s))
    THEN SortForward(Tail(s) \o <<Head(s)>>)
    ELSE <<Head(s)>> \o SortForward(Tail(s))

RECURSIVE SortReverse(_)
SortReverse(s) ==
    IF s = <<>> THEN <<>> ELSE InsertDesc(SortReverse(Front(s)), Last(s))

(***************************************************************************)
(* The world an operation runs in: w = [fs, confs, ch].                    *)
(***************************************************************************)
World(f, c, ch) == [fs |-> f, confs |-> c, ch |-> ch]

Exists(w, abs) == abs \in DOMAIN w.fs \/ abs \in DOMAIN w.confs

Without(fn, x) == [k \in DOMAIN fn \ {x} |-> fn[k]]

With(fn, x, v) == [k \in DOMAIN fn \cup {x} |-> IF k = x THEN v ELSE fn[k]]

\* os.remove(abs)
Unlink(w, abs) == [w EXCEPT !.fs = Without(@, abs), !.confs = Without(@, abs)]

NoFault == [at |-> "none", k |-> 0]

\* the places a Chroot scope can be refused at, and the syscall refused
SysPoints == 1..6
ScopeFaults == {[at |-> a, k |-> k] : a \in {"enter", "exit"}, k \in SysPoints}

At(o, where) == IF o.at = where THEN o.k ELSE 0

(***************************************************************************)
(* delete_file(root, filepath).  o is the environment's refusal: a syscall *)
(* of the Chroot scope, or the removal itself.  The result: the world,     *)
(* err (a ChrootError left the call), removed, failed (an OSError was      *)
(* swallowed), hit (the refusal o took effect).                            *)
(***************************************************************************)
\* os.remove is reached and succeeds
CanRemove(w, dry, abs, o) == ~dry /\ Exists(w, abs) /\ o.at # "remove"

\* lines 345-357, given e, the entry into the Chroot scope, x, the exit from it, and
\* abs, the file the path names inside the scope
DeleteResult(w, dry, o, e, x, abs) ==
    IF e.err
    THEN [w |-> [w EXCEPT !.ch = e.ch], err |-> TRUE, removed |-> FALSE,
          failed |-> FALSE, hit |-> o.at = "enter" /\ o.k = e.n]
    ELSE [w |-> [(IF CanRemove(w, dry, abs, o) THEN Unlink(w, abs) ELSE w)
                    EXCEPT !.ch = x.ch],
          err |-> x.err, removed |-> CanRemove(w, dry, abs, o),
          failed |-> ~dry /\ ~CanRemove(w, dry, abs, o),
          hit |-> \/ o.at = "remove" /\ ~dry /\ Exists(w, abs)
                  \/ o.at = "exit" /\ x.err /\ o.k = x.n]

DeleteScope(w, dry, filepath, o, e) ==
    DeleteResult(w, dry, o, e, ChrootExit(e.ch, e.skip, At(o, "exit")),
                 Abs(e.ch.root, filepath))

DeleteFile(w, dry, root, filepath, o) ==
    DeleteScope(w, dry, filepath, o, ChrootEnter(w.ch, root, At(o, "enter")))

(***************************************************************************)
(* A run of delete_file calls, as Config.remove and FileTracker.__exit__   *)
(* make them: calls[i] = [root, path]; the first ChrootError ends the run. *)
(* os[i] is the refusal that meets call i.                                 *)
(***************************************************************************)
\* a run of deletions that a failed removal ends
DeleteNextStrict(acc, call, r) ==
    [w |-> r.w, err |-> r.err \/ r.failed,
     attempted |-> Append(acc.attempted, call),
     failed |-> IF r.failed THEN Append(acc.failed, call) ELSE acc.failed,
     hits |-> acc.hits + (IF r.hit THEN 1 ELSE 0)]

\* the run's record after one more call, whose result is r
DeleteNext(acc, call, r) ==
    [w |-> r.w, err |-> r.err,
     attempted |-> Append(acc.attempted, call),
     failed |-> IF r.failed THEN Append(acc.failed, call) ELSE acc.failed,
     hits |-> acc.hits + (IF r.hit THEN 1 ELSE 0)]

RECURSIVE DeleteFrom(_, _, _, _, _)
DeleteFrom(acc, dry, calls, os, i) ==
    IF i > Len(calls) \/ acc.err THEN acc
    ELSE DeleteFrom(DeleteNext(acc, calls[i],
                               DeleteFile(acc.w, dry, calls[i].root, calls[i].path, os[i])),
                    dry, calls, os, i + 1)

DeleteAll(w, dry, calls, os) ==
    DeleteFrom([w |-> w, err |-> FALSE, attempted |-> <<>>, failed |-> <<>>, hits |-> 0],
               dry, calls, os, 1)

DeleteFaults == ScopeFaults \cup {NoFault, [at |-> "remove", k |-> 0]}

\* the refusals a run of n calls can meet, at most budget of them
RECURSIVE Refusals(_, _, _)
Refusals(n, budget, kinds) ==
    IF budget = 0 \/ n = 0 THEN {[i \in 1..n |-> NoFault]}
    ELSE LET fewer == Refusals(n, budget - 1, kinds)
         IN fewer \cup {[o EXCEPT ![i] = k] : o \in fewer, i \in 1..n, k \in kinds}

Used(os) == Cardinality({i \in DOMAIN os : os[i] # NoFault})

(***************************************************************************)
(* copy_file(src, dest), called inside the Chroot scope of the entry's     *)
(* root.  how is what the environment lets shutil.copy2 and os.chown do:   *)
(* "ok"; "nodest", the copy fails before dest exists; "partial", it fails  *)
(* after dest was created; "chown", the bytes are copied and chown fails.  *)
(* The result: the world, err (a LifeboatError), hit.                      *)
(***************************************************************************)
CopyFaults == {"nodest", "partial", "chown"}

Partial == "partial"

\* a copy that reports success and leaves a truncated dest
CopyTruncated(w, dry, src, dest, how) ==
    [w |-> [w EXCEPT !.fs = With(@, Abs(w.ch.root, dest), Partial)], err |-> FALSE,
     hit |-> how # "ok"]

\* a copy that replaces a dest that exists
CopyOver(w, dry, src, dest, how) ==
    LET s == Abs(w.ch.root, src)
        d == Abs(w.ch.root, dest)
    IN IF s \notin DOMAIN w.fs THEN [w |-> w, err |-> TRUE, hit |-> FALSE]
       ELSE [w |-> [w EXCEPT !.fs = With(@, d, w.fs[s])], err |-> FALSE, hit |-> how # "ok"]

\* a copy that moves the file
CopyMoved(w, dry, src, dest, how) ==
    LET s == Abs(w.ch.root, src)
        d == Abs(w.ch.root, dest)
    IN IF ~Exists(w, s) \/ Exists(w, d) THEN [w |-> w, err |-> TRUE, hit |-> FALSE]
       ELSE [w |-> [w EXCEPT !.fs = With(Without(@, s), d, w.fs[s])], err |-> FALSE,
             hit |-> how # "ok"]

CopyFile(w, dry, src, dest, how) ==
    LET s == Abs(w.ch.root, src)
        d == Abs(w.ch.root, dest)
    IN IF ~Exists(w, s) \/ Exists(w, d)
       THEN [w |-> w, err |-> TRUE, hit |-> FALSE]
       ELSE IF dry THEN [w |-> w, err |-> FALSE, hit |-> FALSE]
       ELSE IF s \notin DOMAIN w.fs \/ how = "nodest"
       THEN [w |-> w, err |-> TRUE, hit |-> how = "nodest"]
       ELSE IF how = "partial"
       THEN [w |-> [w EXCEPT !.fs = With(@, d, Partial)], err |-> TRUE, hit |-> TRUE]
       ELSE [w |-> [w EXCEPT !.fs = With(@, d, w.fs[s])],
             err |-> how = "chown", hit |-> how = "chown"]

(***************************************************************************)
(* Config.write.  o refuses a syscall of the Chroot('/') scope, the open   *)
(* or the fp.write.  Every exception, a ChrootError too, leaves as a       *)
(* LifeboatError (err).                                                    *)
(***************************************************************************)
WriteFaults == ScopeFaults \cup {[at |-> "open", k |-> 0], [at |-> "write", k |-> 0]}

\* line 175: open(self.path, 'w' if self.autosave else 'x') succeeds
Opens(w, c, abs, o) == o.at # "open" /\ (c.autosave \/ ~Exists(w, abs))

\* lines 176-177: the content is written
Writes(w, dry, c, abs, o) == Opens(w, c, abs, o) /\ ~dry /\ o.at # "write"

\* lines 172-181, given e, the entry into the Chroot('/') scope, x, the exit from it,
\* and abs, the file self.path names inside the scope
WriteResult(w, dry, c, o, e, x, abs) ==
    IF e.err
    THEN [w |-> [w EXCEPT !.ch = e.ch], err |-> TRUE,
          hit |-> o.at = "enter" /\ o.k = e.n]
    ELSE [w |-> [(IF ~Opens(w, c, abs, o) THEN w
                  ELSE [w EXCEPT !.confs = With(@, abs, IF Writes(w, dry, c, abs, o)
                                                        THEN ToConf(c) ELSE EmptyConf)])
                    EXCEPT !.ch = x.ch],
          err |-> ~Opens(w, c, abs, o) \/ (~dry /\ ~Writes(w, dry, c, abs, o)) \/ x.err,
          hit |-> \/ o.at = "open"
                  \/ o.at = "write" /\ Opens(w, c, abs, o) /\ ~dry
                  \/ o.at = "exit" /\ x.err /\ o.k = x.n]

WriteScope(w, dry, c, o, e) ==
    WriteResult(w, dry, c, o, e, ChrootExit(e.ch, e.skip, At(o, "exit")),
                Abs(e.ch.root, c.path))

Write(w, dry, c, o) == WriteScope(w, dry, c, o, ChrootEnter(w.ch, "/", At(o, "enter")))

\* dataclasses.replace(c, autosave=True, ...): __post_init__ writes the new Config
Replace(w, dry, c, o) == Write(w, dry, [c EXCEPT !.autosave = TRUE], o)

(***************************************************************************)
(* Config._md5(filepath) of the Config with root root: err is "none",      *)
(* "Md5Error" or "ChrootError"; digest is the content read.                *)
(***************************************************************************)
Md5Result(f, o, e, x, abs) ==
    IF e.err
    THEN [ch |-> e.ch, err |-> "ChrootError", digest |-> "",
          hit |-> o.at = "enter" /\ o.k = e.n]
    ELSE [ch |-> x.ch,
          err |-> IF x.err THEN "ChrootError"
                  ELSE IF abs \in DOMAIN f THEN "none" ELSE "Md5Error",
          digest |-> IF abs \in DOMAIN f THEN f[abs] ELSE "",
          hit |-> o.at = "exit" /\ x.err /\ o.k = x.n]

Md5Scope(f, filepath, o, e) ==
    Md5Result(f, o, e, ChrootExit(e.ch, e.skip, At(o, "exit")), Abs(e.ch.root, filepath))

Md5(ch, f, root, filepath, o) ==
    Md5Scope(f, filepath, o, ChrootEnter(ch, root, At(o, "enter")))

\* the refusal that meets the comparison's call number c
RefusalAt(os, c) == IF c \in DOMAIN os THEN os[c] ELSE NoFault

\* the set comprehension's record after one more _md5 call, whose result is r
Md5Next(acc, r) ==
    [ch |-> r.ch, err |-> r.err, calls |-> acc.calls + 1,
     digests |-> acc.digests \cup {r.digest},
     hits |-> acc.hits + (IF r.hit THEN 1 ELSE 0)]

\* {self._md5(filepath) for filepath in files}, from call number i of os on
RECURSIVE Md5Set(_, _, _, _, _, _)
Md5Set(acc, f, root, files, os, i) ==
    IF i > Len(files) \/ acc.err # "none" THEN acc
    ELSE Md5Set(Md5Next(acc, Md5(acc.ch, f, root, files[i], RefusalAt(os, acc.calls + 1))),
                f, root, files, os, i + 1)

\* an empty set comprehension, continuing the comparison acc
NoDigests(acc, err) ==
    [ch |-> acc.ch, err |-> err, calls |-> acc.calls, digests |-> {}, hits |-> acc.hits]

(***************************************************************************)
(* Config.equivalent(other): all() over the compared fields in the order   *)
(* the set yields them, stopping at the first field that differs.  Both    *)
(* sides' files are read by self._md5, under self.root.  res is "true",    *)
(* "false" or "ChrootError".                                               *)
(***************************************************************************)
\* lines 157-159: a's digests are self's files', b's are other's
SameFiles(a, b) ==
    [ch |-> b.ch, calls |-> b.calls, hits |-> b.hits,
     res |-> IF b.err = "ChrootError" THEN "ChrootError"
             ELSE IF b.err = "Md5Error" THEN "false"
             ELSE IF a.digests = b.digests THEN "true"
             ELSE "false"]

OtherFiles(a, f, self, other, field, os) ==
    SameFiles(a, Md5Set(NoDigests(a, a.err), f, self.root, other[field], os, 1))

\* lines 156-162: one field of the comparison
SameField(acc, f, self, other, field, os) ==
    IF field \in FIELDS_WITH_FILES
    THEN OtherFiles(Md5Set(NoDigests(acc, "none"), f, self.root, self[field], os, 1),
                    f, self, other, field, os)
    ELSE [acc EXCEPT !.res = IF self[field] = other[field] THEN "true" ELSE "false"]

RECURSIVE EquivFrom(_, _, _, _, _, _, _)
EquivFrom(acc, f, self, other, order, os, i) ==
    IF acc.res # "true" \/ i > Len(order) THEN acc
    ELSE EquivFrom(SameField(acc, f, self, other, order[i], os),
                   f, self, other, order, os, i + 1)

Equivalent(ch, f, self, other, order, os) ==
    EquivFrom([ch |-> ch, calls |-> 0, hits |-> 0, res |-> "true"],
              f, self, other, order, os, 1)

\* the fields of CONF_FIELDS, in the order the dataclass declares them
FieldSeq ==
    <<"title", "version", "machine_id", "sort_key", "linux", "initrd", "efi", "options",
      "devicetree", "devicetree_overlay", "architecture">>

\* a comparison that ignores no content field
IsContent(field) == field \in CONF_FIELDS

IsCompared(field) == field \in CONF_FIELDS \ EQUIVALENCY_IGNORE_FIELDS

Reverse(s) == [i \in 1..Len(s) |-> s[Len(s) + 1 - i]]

\* two of the orders in which the set CONF_FIELDS - EQUIVALENCY_IGNORE_FIELDS can be
\* iterated
EquivOrders == {SelectSeq(FieldSeq, IsCompared), Reverse(SelectSeq(FieldSeq, IsCompared))}

\* the number of _md5 calls a comparison can make
Md5Calls(self, other) ==
    Len(self.linux) + Len(self.initrd) + Len(self.efi)
    + Len(other.linux) + Len(other.initrd) + Len(other.efi)

(***************************************************************************)
(* Config.create_lifeboat's new Config (lines 125-135).                    *)
(***************************************************************************)
RECURSIVE Basename(_)
Basename(p) ==
    IF p.pre = <<>> THEN p.base
    ELSE "lifeboat_" \o ToString(Head(p.pre)) \o "_" \o Basename([p EXCEPT !.pre = Tail(@)])

\* a lifeboat that keeps the title and the version of the entry it is made of
NewLifeboatUnmarked(self, ts, na) ==
    [self EXCEPT
        !.path = LifeboatPath(self.path, ts),
        !.autosave = TRUE,
        !.linux = na.linux, !.initrd = na.initrd, !.efi = na.efi]

\* a lifeboat that is written to the path of the entry it is made of
NewLifeboatInPlace(self, ts, na) ==
    [self EXCEPT
        !.title = <<(IF self.title # <<>> THEN self.title[1] ELSE Basename(self.path))
                    \o " @" \o PrettyDate(ts)>>,
        !.version = <<"-" \o self.version[1] \o "-" \o ToString(ts)>>,
        !.autosave = TRUE,
        !.linux = na.linux, !.initrd = na.initrd, !.efi = na.efi]

NewLifeboat(self, ts, na) ==
    [self EXCEPT
        !.path = LifeboatPath(self.path, ts),
        !.title = <<(IF self.title # <<>> THEN self.title[1] ELSE Basename(self.path))
                    \o " @" \o PrettyDate(ts)>>,
        !.version = <<"-" \o self.version[1] \o "-" \o ToString(ts)>>,
        !.autosave = TRUE,
        !.linux = na.linux, !.initrd = na.initrd, !.efi = na.efi]

\* the orders in which the set FIELDS_WITH_FILES can be iterated
RECURSIVE Orderings(_)
Orderings(S) ==
    IF S = {} THEN {<<>>}
    ELSE UNION {{<<x>> \o t : t \in Orderings(S \ {x})} : x \in S}

FieldOrders == Orderings(FIELDS_WITH_FILES)

\* for field in order: for file in getattr(c, field)
RECURSIVE FilesOf(_, _)
FilesOf(c, order) ==
    IF order = <<>> THEN <<>>
    ELSE [i \in 1..Len(c[Head(order)]) |-> [field |-> Head(order), file |-> c[Head(order)][i]]]
         \o FilesOf(c, Tail(order))

\* Config.remove: the delete_file calls, in order
RemoveCalls(c, order) ==
    LET files == FilesOf(c, order)
    IN [i \in 1..Len(files) |-> [root |-> c.root, path |-> files[i].file]]
       \o <<[root |-> "/", path |-> c.path]>>

\* a track that records no root
TrackRootSlash(ch) == "/"

\* FileTracker.track: the root recorded with a file
TrackRoot(ch) == IF ch.roots # <<>> THEN Last(ch.roots).path ELSE "/"

(***************************************************************************)
(* FileTracker.__exit__(exc): the tracked files are deleted unless exc is  *)
(* None or a ChrootError; an exception raised by a deletion replaces exc.  *)
(* The result: the world, exc (the exception that leaves the scope),       *)
(* attempted (the delete_file calls made), hits.                           *)
(***************************************************************************)
Rollback(e, r) ==
    [w |-> r.w, exc |-> IF r.err THEN "ChrootError" ELSE e,
     attempted |-> r.attempted, failed |-> r.failed, hits |-> r.hits]

TrackerExit(w, dry, files, e, os) ==
    IF e # "none" /\ e # "ChrootError"
    THEN Rollback(e, DeleteAll(w, dry, files, os))
    ELSE [w |-> w, exc |-> e, attempted |-> <<>>, failed |-> <<>>, hits |-> 0]

\* ghost: the exception the scope was left with, its files, what r = TrackerExit did,
\* the exception that left __exit__ and the files afterwards
Exited(given, files, r) ==
    [exc |-> given, files |-> files, attempted |-> r.attempted, failed |-> r.failed,
     hits |-> r.hits, out |-> r.exc, after |-> r.w.fs]

(***************************************************************************)
(* The installation.  The boot manager's entries live in                   *)
(* <esp>/loader/entries; every entry's root is the ESP it lives on, "/" or *)
(* "/efi".  The live entry arch.conf names a kernel and an initrd.         *)
(***************************************************************************)
Esps == {"/", "/efi"}

EntriesDir(esp) == Join(esp, "/loader/entries")

LivePath(esp) == P(EntriesDir(esp), "arch.conf")

Kernel == P("/", "vmlinuz")
Initrd == P("/", "initramfs")

DefaultSortKey == "linux"
DefaultVersion == "6.1"

\* the live entry's descriptor: complete, or without title, sort key and version
LiveConf(complete) ==
    [EmptyConf EXCEPT
        !.title = IF complete THEN <<"Arch">> ELSE <<>>,
        !.sort_key = IF complete THEN <<DefaultSortKey>> ELSE <<>>,
        !.version = IF complete THEN <<DefaultVersion>> ELSE <<>>,
        !.linux = <<Kernel>>, !.initrd = <<Initrd>>]

\* bootctl's "root" of the entry at path
EntryRoot(path) == IF path.dir = EntriesDir("/efi") THEN "/efi" ELSE "/"

\* get_bootctl_entries, as a set
Entries(c) ==
    {FromBootctl(path, EntryRoot(path), c[path], ~IsLifeboatPath(path)) : path \in DOMAIN c}

Contents == {"v1", "v2"}

\* a lifeboat an earlier run made at ts, when the kernel held content v
OldLifeboat(esp, ts) ==
    ToConf(NewLifeboat(
        FromBootctl(LivePath(esp), esp, LiveConf(TRUE), TRUE), ts,
        [linux |-> <<LifeboatPath(Kernel, ts)>>, initrd |-> <<LifeboatPath(Initrd, ts)>>,
         efi |-> <<>>]))

InitTs == 1..(MaxTs - 1)

\* a lifeboat descriptor whose payload copies are gone from the disk
Gone == "gone"

\* the filesystems main can find: old maps the timestamps of the lifeboats that exist
\* to the content of their kernel copy, or to Gone
InitFs(esp, old) ==
    [p \in {Abs(esp, Kernel), Abs(esp, Initrd)}
           \cup {Abs(esp, LifeboatPath(Kernel, t)) : t \in {u \in DOMAIN old : old[u] # Gone}}
           \cup {Abs(esp, LifeboatPath(Initrd, t)) : t \in {u \in DOMAIN old : old[u] # Gone}} |->
        IF p.base = Initrd.base THEN "ird"
        ELSE IF p.pre = <<>> THEN "v1" ELSE old[Head(p.pre)]]

InitConfs(esp, complete, old) ==
    [p \in {LivePath(esp)} \cup {LifeboatPath(LivePath(esp), t) : t \in DOMAIN old} |->
        IF p.pre = <<>> THEN LiveConf(complete) ELSE OldLifeboat(esp, Head(p.pre))]

NoCreate == [ts |-> 0, skip |-> FALSE, todo |-> <<>>,
             new_args |-> [linux |-> <<>>, initrd |-> <<>>, efi |-> <<>>]]

NoArgs == [max_lifeboats |-> 0, default_config_path |-> P("/", "")]

\* hist: the run's outcome; repeat, the run repeats a successful run with nothing changed
\* in between; ts, what now() returned; L and D, the lifeboats and the default entry compared; match; evicted,
\* the lifeboats popped; failed, the deletions whose error was swallowed; before, the
\* filesystem when create_lifeboat was called; new, the Config it built; rollback, the
\* exception FileTracker.__exit__ was given and the deletions it attempted
NoHist == [outcome |-> "none", repeat |-> FALSE, ts |-> 0, L |-> <<>>, D |-> <<>>, match |-> <<>>,
           evicted |-> <<>>, failed |-> <<>>, before |-> <<>>, new |-> <<>>,
           rollback |-> <<>>]

NoLast == [status |-> "none", args |-> NoArgs, changed |-> FALSE]

InitWith(dry, faults, runs) ==
    /\ \E esp \in Esps, complete \in BOOLEAN, T \in SUBSET InitTs :
         \E old \in [T -> Contents \cup {Gone}] :
            /\ fs = InitFs(esp, old)
            /\ confs = InitConfs(esp, complete, old)
    /\ chroot = AtRest
    /\ DRY_RUN = dry
    /\ faultsLeft = faults
    /\ runsLeft = runs
    /\ pc = "idle"
    /\ args = NoArgs
    /\ configs = <<>>
    /\ default_config = <<>>
    /\ lifeboats = <<>>
    /\ cand = 0
    /\ create = NoCreate
    /\ tracker = <<>>
    /\ exc = "none"
    /\ pre = [fs |-> fs, confs |-> confs]
    /\ hist = NoHist
    /\ last = NoLast
    /\ scopes = <<>>
    /\ trace = <<>>

\* one run of main, which the environment may fail
Init == InitWith(FALSE, MaxFaults, 1)

\* runs of main one after the other, in an environment that fails nothing
InitTwice == InitWith(FALSE, 0, MaxRuns)

(***************************************************************************)
(* main().  One action per block of main and of create_lifeboat; a run     *)
(* starts and ends at pc = "idle".  hist records what the run did.         *)
(***************************************************************************)
W == World(fs, confs, chroot)

SetWorld(w) == fs' = w.fs /\ confs' = w.confs /\ chroot' = w.ch

Spend(n) == n <= faultsLeft /\ faultsLeft' = faultsLeft - n

Cost(o) == IF o = NoFault THEN 0 ELSE 1

\* main returns, or an exception e leaves it; last keeps the arguments of a run that
\* succeeded
EndRun(a, e, outcome, h) ==
    /\ pc' = "idle"
    /\ exc' = e
    /\ last' = [status |-> IF e = "none" THEN "ok" ELSE "failed",
                args |-> IF e = "none" THEN a ELSE NoArgs, changed |-> FALSE]
    /\ hist' = [h EXCEPT !.outcome = outcome]
    /\ configs' = <<>>
    /\ default_config' = <<>>
    /\ lifeboats' = <<>>
    /\ cand' = 0
    /\ create' = NoCreate
    /\ tracker' = <<>>

DC == default_config[1]

\* lines 27-40: the arguments are checked and the default entry is looked up
MainStart(max, path) ==
    /\ pc = "idle"
    /\ scopes = <<>>
    /\ runsLeft > 0
    /\ runsLeft' = runsLeft - 1
    /\ args' = [max_lifeboats |-> max, default_config_path |-> path]
    /\ pre' = [fs |-> fs, confs |-> confs]
    /\ \E h \in {[NoHist EXCEPT
                    !.repeat = last.status = "ok" /\ last.args = args' /\ ~last.changed]},
          e \in {ChrootEnter(chroot, "/", 0)},
          found \in {{c \in Entries(confs) : c.path = path}} :
       \E x \in {ChrootExit(e.ch, e.skip, 0)} :
          IF max < 1
          THEN EndRun(args', "LifeboatError", "rejected", h) /\ UNCHANGED chroot
          ELSE IF e.err \/ x.err
          THEN /\ EndRun(args', "ChrootError", "failed", h)
               /\ chroot' = (IF e.err THEN e.ch ELSE x.ch)
          ELSE /\ chroot' = x.ch
               /\ IF found = {} \/ IsLifeboatPath(path)
                  THEN EndRun(args', "LifeboatError", "rejected", h)
                  ELSE /\ \E live \in Orderings({c \in Entries(confs) : ~IsLifeboat(c)}),
                             boats \in Orderings({c \in Entries(confs) : IsLifeboat(c)}) :
                             configs' = live \o boats
                       /\ default_config' = <<CHOOSE c \in found : TRUE>>
                       /\ hist' = h
                       /\ pc' = "sort_key"
                       /\ exc' = "none"
                       /\ UNCHANGED <<lifeboats, cand, create, tracker, last>>
    /\ UNCHANGED <<fs, confs, DRY_RUN, faultsLeft, trace, scopes>>

\* lines 42-44: a default entry without a sort key gets default_sort_key, and is saved
MainSortKey ==
    /\ pc = "sort_key"
    /\ IF DC.sort_key # <<>>
       THEN /\ pc' = "version"
            /\ UNCHANGED <<fs, confs, chroot, faultsLeft, default_config, hist, last, exc,
                           configs, lifeboats, cand, create, tracker>>
       ELSE \E o \in WriteFaults \cup {NoFault},
               c \in {[DC EXCEPT !.sort_key = <<DefaultSortKey>>, !.autosave = TRUE]} :
               \E r \in {Write(W, DRY_RUN, c, o)} :
                  /\ r.hit = (o # NoFault)
                  /\ Spend(Cost(o))
                  /\ SetWorld(r.w)
                  /\ IF r.err
                     THEN EndRun(args, "LifeboatError", "failed", hist)
                     ELSE /\ default_config' = <<c>>
                          /\ pc' = "version"
                          /\ UNCHANGED <<hist, last, exc, configs, lifeboats, cand,
                                         create, tracker>>
    /\ UNCHANGED <<DRY_RUN, runsLeft, args, pre, scopes, trace>>

\* lines 46-50: the same for the version; then the lifeboats, newest first
MainVersion ==
    /\ pc = "version"
    /\ \E boats \in {SortReverse(SelectSeq(configs, IsLifeboat))} :
       \E next \in {IF boats = <<>> THEN "evict" ELSE "match"} :
          IF DC.version # <<>>
          THEN /\ lifeboats' = boats
               /\ pc' = next
               /\ cand' = 1
               /\ hist' = [hist EXCEPT !.L = boats, !.D = default_config]
               /\ UNCHANGED <<fs, confs, chroot, faultsLeft, default_config, last, exc,
                              configs, create, tracker>>
          ELSE \E o \in WriteFaults \cup {NoFault},
                  c \in {[DC EXCEPT !.version = <<DefaultVersion>>, !.autosave = TRUE]} :
                  \E r \in {Write(W, DRY_RUN, c, o)} :
                     /\ r.hit = (o # NoFault)
                     /\ Spend(Cost(o))
                     /\ SetWorld(r.w)
                     /\ IF r.err
                        THEN EndRun(args, "LifeboatError", "failed", hist)
                        ELSE /\ default_config' = <<c>>
                             /\ lifeboats' = boats
                             /\ pc' = next
                             /\ cand' = 1
                             /\ hist' = [hist EXCEPT !.L = boats, !.D = <<c>>]
                             /\ UNCHANGED <<last, exc, configs, create, tracker>>
    /\ UNCHANGED <<DRY_RUN, runsLeft, args, pre, scopes, trace>>

\* a match that is never taken
NeverMatch(res) == FALSE

\* line 51: x.equivalent(default_config) is true, which ends the generator
IsMatch(res) == res = "true"

\* lines 51-53: the generator's next lifeboat is compared with the default entry
MainMatch ==
    /\ pc = "match"
    /\ \E order \in EquivOrders,
          os \in Refusals(Md5Calls(lifeboats[cand], DC), faultsLeft, ScopeFaults) :
          \E r \in {Equivalent(chroot, fs, lifeboats[cand], DC, order, os)} :
             /\ r.hits = Used(os)
             /\ Spend(Used(os))
             /\ chroot' = r.ch
             /\ IF r.res = "ChrootError"
                THEN EndRun(args, "ChrootError", "failed", hist)
                ELSE IF IsMatch(r.res)
                THEN EndRun(args, "none", "matched",
                            [hist EXCEPT !.match = <<lifeboats[cand]>>])
                ELSE /\ pc' = IF cand = Len(lifeboats) THEN "evict" ELSE "match"
                     /\ cand' = cand + 1
                     /\ UNCHANGED <<hist, last, exc, configs, default_config, lifeboats,
                                    create, tracker>>
    /\ UNCHANGED <<fs, confs, DRY_RUN, runsLeft, args, pre, scopes, trace>>

\* a loop that stops one lifeboat too early: while len(lifeboats) > max_lifeboats
\* a loop that evicts every lifeboat
MustEvictAll(n, max) == n > 0

MustEvictLate(n, max) == n > max

\* line 55: while len(lifeboats) >= max_lifeboats
MustEvict(n, max) == n >= max

\* lines 55-58: one turn of the loop, lifeboats.pop() and lifeboat.remove()
MainEvict ==
    /\ pc = "evict"
    /\ MustEvict(Len(lifeboats), args.max_lifeboats)
    /\ \E order \in FieldOrders, lifeboat \in {Last(lifeboats)} :
          \E calls \in {RemoveCalls(lifeboat, order)} :
             \E os \in Refusals(Len(calls), faultsLeft, DeleteFaults) :
                \E r \in {DeleteAll(W, DRY_RUN, calls, os)} :
                \E h \in {[hist EXCEPT !.evicted = Append(@, lifeboat),
                                        !.failed = @ \o r.failed]} :
                   /\ r.hits = Used(os)
                   /\ Spend(Used(os))
                   /\ SetWorld(r.w)
                   /\ IF r.err
                      THEN EndRun(args, "ChrootError", "failed", h)
                      ELSE /\ lifeboats' = Front(lifeboats)
                           /\ hist' = h
                           /\ UNCHANGED <<pc, last, exc, configs, default_config, cand,
                                          create, tracker>>
    /\ UNCHANGED <<DRY_RUN, runsLeft, args, pre, scopes, trace>>

Timestamps == 1..MaxTs

\* line 60 and lines 114-118: now(), then create_lifeboat opens its FileTracker scope
\* and enters the Chroot scope of the default entry's root
MainCreate(ts) ==
    /\ pc = "evict"
    /\ ~MustEvict(Len(lifeboats), args.max_lifeboats)
    /\ \E order \in FieldOrders, f \in EnterPoints(chroot, DC.root) :
          \E e \in {ChrootEnter(chroot, DC.root, f)},
             h \in {[hist EXCEPT !.ts = ts,
                                  !.before = <<[fs |-> fs, confs |-> confs]>>]} :
             /\ (f # 0) = (e.err /\ f = e.n)
             /\ Spend(IF f = 0 THEN 0 ELSE 1)
             /\ chroot' = e.ch
             /\ IF e.err
                THEN EndRun(args, "ChrootError", "failed",
                            [h EXCEPT !.rollback =
                                <<Exited("ChrootError", <<>>,
                                         TrackerExit(W, DRY_RUN, <<>>, "ChrootError", <<>>))>>])
                ELSE /\ create' = [ts |-> ts, skip |-> e.skip,
                                   todo |-> FilesOf(DC, order),
                                   new_args |-> NoCreate.new_args]
                     /\ pc' = "copy"
                     /\ hist' = h
                     /\ UNCHANGED <<last, exc, configs, default_config, lifeboats, cand,
                                    tracker>>
    /\ UNCHANGED <<fs, confs, DRY_RUN, runsLeft, args, pre, scopes, trace>>

\* lines 119-123: one payload file is copied and tracked; an error of the copy leaves
\* the Chroot scope on its way out
MainCopy ==
    /\ pc = "copy"
    /\ create.todo # <<>>
    /\ \E how \in {"ok"} \cup CopyFaults, f \in ExitPoints(chroot, create.skip) :
          \E item \in {Head(create.todo)}, x \in {ChrootExit(chroot, create.skip, f)},
             n \in {(IF how = "ok" THEN 0 ELSE 1) + (IF f = 0 THEN 0 ELSE 1)} :
          \E dest \in {LifeboatPath(item.file, create.ts)} :
          \E r \in {CopyFile(W, DRY_RUN, item.file, dest, how)} :
             /\ r.hit = (how # "ok")
             /\ Spend(n)
             /\ fs' = r.w.fs
             /\ confs' = r.w.confs
             /\ IF r.err
                THEN /\ (f # 0) = (x.err /\ f = x.n)
                     /\ chroot' = x.ch
                     /\ exc' = IF x.err THEN "ChrootError" ELSE "LifeboatError"
                     /\ pc' = "unwind"
                     /\ UNCHANGED <<create, tracker>>
                ELSE /\ f = 0
                     /\ chroot' = chroot
                     /\ tracker' = Append(tracker, [path |-> dest, root |-> TrackRoot(chroot)])
                     /\ create' = [create EXCEPT
                                      !.todo = Tail(@),
                                      !.new_args[item.field] = Append(@, dest)]
                     /\ UNCHANGED <<pc, exc>>
    /\ UNCHANGED <<DRY_RUN, runsLeft, args, pre, hist, last, configs, default_config,
                   lifeboats, cand, scopes, trace>>

\* line 116, on the way out: every file is copied and the Chroot scope is left
MainCopied ==
    /\ pc = "copy"
    /\ create.todo = <<>>
    /\ \E f \in ExitPoints(chroot, create.skip) :
          \E x \in {ChrootExit(chroot, create.skip, f)} :
             /\ (f # 0) = (x.err /\ f = x.n)
             /\ Spend(IF f = 0 THEN 0 ELSE 1)
             /\ chroot' = x.ch
             /\ exc' = IF x.err THEN "ChrootError" ELSE "none"
             /\ pc' = IF x.err THEN "unwind" ELSE "write"
    /\ UNCHANGED <<fs, confs, DRY_RUN, runsLeft, args, pre, hist, last, configs,
                   default_config, lifeboats, cand, create, tracker, scopes, trace>>

\* lines 125-136: the lifeboat's Config is built, which writes its descriptor; when
\* that succeeds the FileTracker scope is left without an exception and main returns
MainWrite ==
    /\ pc = "write"
    /\ \E o \in WriteFaults \cup {NoFault} :
          \E config \in {NewLifeboat(DC, create.ts, create.new_args)} :
          \E r \in {Write(W, DRY_RUN, config, o)}, h \in {[hist EXCEPT !.new = <<config>>]} :
             /\ r.hit = (o # NoFault)
             /\ Spend(Cost(o))
             /\ SetWorld(r.w)
             /\ IF r.err
                THEN /\ exc' = "LifeboatError"
                     /\ pc' = "unwind"
                     /\ hist' = h
                     /\ UNCHANGED <<last, configs, default_config, lifeboats, cand, create,
                                    tracker>>
                ELSE EndRun(args, "none", "created",
                            [h EXCEPT !.rollback =
                                <<Exited("none", tracker,
                                         TrackerExit(r.w, DRY_RUN, tracker, "none", <<>>))>>])
    /\ UNCHANGED <<DRY_RUN, runsLeft, args, pre, scopes, trace>>

\* line 114, on the way out with an exception: FileTracker.__exit__, and main is left
MainUnwind ==
    /\ pc = "unwind"
    /\ \E os \in Refusals(Len(tracker), faultsLeft, DeleteFaults) :
          \E r \in {TrackerExit(W, DRY_RUN, tracker, exc, os)} :
             /\ r.hits = Used(os)
             /\ Spend(Used(os))
             /\ SetWorld(r.w)
             /\ EndRun(args, r.exc, "failed",
                       [hist EXCEPT !.rollback = <<Exited(exc, tracker, r)>>])
    /\ UNCHANGED <<DRY_RUN, runsLeft, args, pre, scopes, trace>>

\* between two runs the kernel is updated
ChangeLive(v) ==
    /\ pc = "idle"
    /\ scopes = <<>>
    /\ runsLeft > 0
    /\ last.status # "none"
    /\ \E p \in DOMAIN fs :
          /\ p.pre = <<>>
          /\ p.base = Kernel.base
          /\ fs[p] # v
          /\ fs' = [fs EXCEPT ![p] = v]
    /\ last' = [last EXCEPT !.changed = TRUE]
    /\ UNCHANGED <<confs, chroot, DRY_RUN, faultsLeft, runsLeft, pc, args, configs,
                   default_config, lifeboats, cand, create, tracker, exc, pre, hist,
                   scopes, trace>>

MaxArg == 0..MaxLifeboats

DefaultPaths == DOMAIN confs \cup {P("/missing", "arch.conf")}

MainNext ==
    \/ \E max \in MaxArg, path \in DefaultPaths : MainStart(max, path)
    \/ MainSortKey
    \/ MainVersion
    \/ MainMatch
    \/ MainEvict
    \/ \E ts \in Timestamps : MainCreate(ts)
    \/ MainCopy
    \/ MainCopied
    \/ MainWrite
    \/ MainUnwind

Next == MainNext

Spec == Init /\ [][Next]_vars

TwiceNext ==
    \/ MainNext
    \/ \E v \in Contents : ChangeLive(v)

SpecTwice == InitTwice /\ [][TwiceNext]_vars

(***************************************************************************)
(* A client of Chroot and FileTracker, as the tests of the two classes     *)
(* are: it nests with-scopes, makes files and tracks them, and raises.     *)
(* scopes is the stack of open scopes; a scope is [kind, path, skip,       *)
(* files], with the ghosts made (where each tracked file was when it was   *)
(* tracked) and tops (the top of Chroot.roots then).  An exception unwinds *)
(* the scopes, innermost first, and ends the client.  The client opens at  *)
(* most one FileTracker scope, anywhere among its Chroot scopes.           *)
(***************************************************************************)
ScopeRoots == {"/", "/a", "/b", "/a/b", "/nowhere"}

ScopeFiles == {P("/", "f")}

MaxTracked == 2

TrackerScope ==
    [kind |-> "tracker", path |-> "", skip |-> FALSE, files |-> <<>>, made |-> <<>>,
     tops |-> <<>>]

ChrootScope(path, skip) == [TrackerScope EXCEPT !.kind = "chroot", !.path = path, !.skip = skip]

InitScopes ==
    /\ fs = <<>>
    /\ confs = <<>>
    /\ chroot = AtRest
    /\ DRY_RUN = FALSE
    /\ faultsLeft = MaxFaults
    /\ runsLeft = 0
    /\ pc = "client"
    /\ args = NoArgs
    /\ configs = <<>>
    /\ default_config = <<>>
    /\ lifeboats = <<>>
    /\ cand = 0
    /\ create = NoCreate
    /\ tracker = <<>>
    /\ exc = "none"
    /\ pre = [fs |-> fs, confs |-> confs]
    /\ hist = NoHist
    /\ last = NoLast
    /\ scopes = <<>>
    /\ trace = <<>>

MainVars == <<runsLeft, args, configs, default_config, lifeboats, cand, create, tracker,
              pre, last, DRY_RUN>>

\* with FileTracker() as tracker: the client opens one such scope
OpenTracker ==
    /\ pc = "client"
    /\ Len(scopes) < MaxDepth
    /\ hist.rollback = <<>>
    /\ \A i \in DOMAIN scopes : scopes[i].kind # "tracker"
    /\ scopes' = Append(scopes, TrackerScope)
    /\ UNCHANGED <<fs, confs, chroot, faultsLeft, pc, exc, hist, trace, MainVars>>

\* with Chroot(path): __enter__, which the environment may refuse at syscall f
OpenChroot(path) ==
    /\ pc = "client"
    /\ Len(scopes) < MaxDepth
    /\ \E f \in EnterPoints(chroot, path) :
       \E e \in {ChrootEnter(chroot, path, f)} :
          /\ (f # 0) = (e.err /\ f = e.n)
          /\ Spend(IF f = 0 THEN 0 ELSE 1)
          /\ chroot' = e.ch
          /\ trace' = e.log
          /\ IF e.err
             THEN /\ exc' = "ChrootError"
                  /\ pc' = "raising"
                  /\ UNCHANGED scopes
             ELSE /\ scopes' = Append(scopes, ChrootScope(path, e.skip))
                  /\ UNCHANGED <<exc, pc>>
    /\ UNCHANGED <<fs, confs, hist, MainVars>>

\* the innermost open FileTracker scope
Innermost == CHOOSE i \in DOMAIN scopes :
                /\ scopes[i].kind = "tracker"
                /\ \A j \in DOMAIN scopes : scopes[j].kind = "tracker" => j <= i

\* tracker.track(file), after the client made the file (made) or without it
ClientTrack(file, made) ==
    /\ pc = "client"
    /\ \E i \in DOMAIN scopes : scopes[i].kind = "tracker"
    /\ Len(scopes[Innermost].files) < MaxTracked
    /\ fs' = IF made THEN With(fs, Abs(chroot.root, file), "data") ELSE fs
    /\ scopes' = [scopes EXCEPT
                     ![Innermost].files = Append(@, [path |-> file, root |-> TrackRoot(chroot)]),
                     ![Innermost].made = Append(@, Abs(chroot.root, file)),
                     ![Innermost].tops = Append(@, IF chroot.roots = <<>> THEN "/"
                                                   ELSE chroot.roots[Len(chroot.roots)].path)]
    /\ UNCHANGED <<confs, chroot, faultsLeft, pc, exc, hist, trace, MainVars>>

\* the body of the innermost scope raises e
ClientRaise(e) ==
    /\ pc = "client"
    /\ scopes # <<>>
    /\ exc' = e
    /\ pc' = "raising"
    /\ UNCHANGED <<fs, confs, chroot, faultsLeft, scopes, hist, trace, MainVars>>

\* Chroot.__exit__ of the innermost scope, at the end of its body or with an exception
LeaveChroot ==
    /\ pc \in {"client", "raising"}
    /\ scopes # <<>>
    /\ Last(scopes).kind = "chroot"
    /\ \E f \in ExitPoints(chroot, Last(scopes).skip) :
       \E x \in {ChrootExit(chroot, Last(scopes).skip, f)} :
          /\ (f # 0) = (x.err /\ f = x.n)
          /\ Spend(IF f = 0 THEN 0 ELSE 1)
          /\ chroot' = x.ch
          /\ trace' = x.log
          /\ exc' = IF x.err THEN "ChrootError" ELSE exc
          /\ pc' = IF x.err THEN "raising" ELSE pc
    /\ scopes' = Front(scopes)
    /\ UNCHANGED <<fs, confs, hist, MainVars>>

\* FileTracker.__exit__ of the innermost scope
LeaveTracker ==
    /\ pc \in {"client", "raising"}
    /\ scopes # <<>>
    /\ Last(scopes).kind = "tracker"
    /\ \E os \in Refusals(Len(Last(scopes).files), faultsLeft, DeleteFaults) :
       \E r \in {TrackerExit(W, DRY_RUN, Last(scopes).files, exc, os)} :
          /\ r.hits = Used(os)
          /\ Spend(Used(os))
          /\ SetWorld(r.w)
          /\ exc' = r.exc
          /\ pc' = IF r.exc = "none" THEN "client" ELSE "raising"
          /\ hist' = [NoHist EXCEPT
                         !.before = <<[fs |-> fs, confs |-> confs]>>,
                         !.new = <<Last(scopes)>>,
                         !.rollback = <<Exited(exc, Last(scopes).files, r)>>]
    /\ scopes' = Front(scopes)
    /\ UNCHANGED <<trace, MainVars>>

ScopesNext ==
    \/ OpenTracker
    \/ \E path \in ScopeRoots : OpenChroot(path)
    \/ \E file \in ScopeFiles, made \in BOOLEAN : ClientTrack(file, made)
    \/ \E e \in {"LifeboatError", "ChrootError"} : ClientRaise(e)
    \/ LeaveChroot
    \/ LeaveTracker

SpecScopes == InitScopes /\ [][ScopesNext]_vars

(***************************************************************************)
(* Properties of a run of main.  A run has just ended when main is idle    *)
(* with an outcome and nothing has touched the disk since.                 *)
(***************************************************************************)
RunEnded == pc = "idle" /\ hist.outcome # "none" /\ ~last.changed

LifeboatsOf(fn) == {p \in DOMAIN fn : IsLifeboatPath(p)}

Restrict(fn, S) == [p \in S |-> fn[p]]

\* the descriptor of every lifeboat the run evicted was deleted when it was asked to be
DescriptorsDeleted ==
    \A i \in DOMAIN hist.evicted :
        [root |-> "/", path |-> hist.evicted[i].path] \notin Range(hist.failed)

\* the path of the descriptor create_lifeboat writes
NewPath == LifeboatPath(hist.D[1].path, hist.ts)

\* create_lifeboat was called: the state it found, and the FileTracker scope's exit
Before == hist.before[1]
Exit == hist.rollback[1]

\* C1 (as the spec states it): when a run of main returns, at most max_lifeboats
\* lifeboat descriptors exist, whatever the lifeboats it found and whether or not one
\* of them matched.
C1_AsClaimed ==
    RunEnded /\ last.status = "ok"
        => Cardinality(LifeboatsOf(confs)) <= args.max_lifeboats

\* C1 (amended): a run that creates a lifeboat, and whose deletions of the evicted
\* descriptors all succeed, ends with at most max_lifeboats lifeboat descriptors; a run
\* that finds a match ends with as many as it started with.
C1_Retention ==
    RunEnded =>
        /\ hist.outcome = "created" /\ DescriptorsDeleted
              => Cardinality(LifeboatsOf(confs)) <= args.max_lifeboats
        /\ hist.outcome = "matched"
              => Cardinality(LifeboatsOf(confs)) = Cardinality(LifeboatsOf(pre.confs))

\* a run started with more lifeboats than max_lifeboats, evicted two and created one
C1_Witness ==
    /\ RunEnded
    /\ hist.outcome = "created"
    /\ Cardinality(LifeboatsOf(pre.confs)) > args.max_lifeboats
    /\ Len(hist.evicted) = 2
    /\ DescriptorsDeleted
    /\ Cardinality(LifeboatsOf(confs)) = args.max_lifeboats

\* C2: a run of main that repeats a successful run, with the same arguments and nothing
\* changed in between, in an environment that refuses nothing, evicts nothing and
\* creates nothing: the disk is as the first run left it, and the run ends by finding a
\* match.
C2_Idempotent ==
    RunEnded /\ hist.repeat =>
        /\ fs = pre.fs
        /\ confs = pre.confs
        /\ hist.evicted = <<>>
        /\ hist.ts = 0
        /\ hist.outcome = "matched"

\* the second of two runs, the first of which created a lifeboat, found it as its match
C2_Witness ==
    /\ RunEnded
    /\ hist.repeat
    /\ hist.outcome = "matched"
    /\ runsLeft = 0
    /\ \E p \in LifeboatsOf(confs) : confs[p].version = <<"-" \o DefaultVersion \o "-3">>

\* C3 (as the spec states it): when create_lifeboat fails with an error that is not a
\* ChrootError, and the environment refuses nothing to the rollback, that error leaves
\* main and no file the attempt created is on the disk.
C3_AsClaimed ==
    RunEnded /\ hist.rollback # <<>> /\ Exit.exc = "LifeboatError" /\ Exit.hits = 0
        => /\ exc = "LifeboatError"
           /\ DOMAIN fs \subseteq DOMAIN Before.fs
           /\ DOMAIN confs \subseteq DOMAIN Before.confs

\* C4 (as the spec states it): when create_lifeboat is called and a descriptor already
\* exists at the path of the new lifeboat's descriptor, then, in an environment that
\* refuses nothing, the call fails, that descriptor is as it was, and no payload copy of
\* the attempt is on the disk.
C4_AsClaimed ==
    RunEnded /\ hist.before # <<>> /\ NewPath \in DOMAIN Before.confs
             /\ faultsLeft = MaxFaults
        => /\ hist.outcome = "failed"
           /\ NewPath \in DOMAIN confs
           /\ confs[NewPath] = Before.confs[NewPath]
           /\ DOMAIN fs \subseteq DOMAIN Before.fs

\* the lifeboats main had to evict, and those it had to keep: L is newest first
Excess ==
    IF Len(hist.L) - args.max_lifeboats + 1 > 0
    THEN Len(hist.L) - args.max_lifeboats + 1 ELSE 0

Kept == {hist.L[i] : i \in 1..(Len(hist.L) - Excess)}

\* every payload file and the descriptor of lifeboat c are absent from the disk d
Removed(c, d) ==
    /\ c.path \notin DOMAIN d.confs
    /\ \A field \in FIELDS_WITH_FILES : \A i \in DOMAIN c[field] :
          Abs(c.root, c[field][i]) \notin DOMAIN d.fs

\* every payload file and the descriptor of lifeboat c are on the disk
Present(c) ==
    /\ c.path \in DOMAIN confs
    /\ \A field \in FIELDS_WITH_FILES : \A i \in DOMAIN c[field] :
          Abs(c.root, c[field][i]) \in DOMAIN fs

\* the evictions of a run that created a lifeboat, and the lifeboats it ends with
Exchange ==
    /\ Len(hist.evicted) = Excess
    /\ Range(hist.evicted) = Range(hist.L) \ Kept
    /\ \A e \in Range(hist.evicted) : \A k \in Kept :
          Timestamp(e.path) <= Timestamp(k.path)
    /\ \A e \in Range(hist.evicted) : Removed(e, Before)
    /\ Present(hist.new[1])
    /\ LifeboatsOf(confs) = {k.path : k \in Kept} \cup {hist.new[1].path}

\* the new lifeboat is one more than those the run kept
AddsOne == hist.new[1].path \notin {k.path : k \in Kept}

SomeEquivalent ==
    \E i \in DOMAIN hist.L : \A order \in EquivOrders :
        Equivalent(AtRest, pre.fs, hist.L[i], hist.D[1], order, <<>>).res = "true"

\* C6: when a lifeboat is equivalent to the default entry, the run evicts nothing and
\* creates nothing: every lifeboat descriptor and payload file is as it was, there is
\* no new one, and a run that returns has found the match.
C6_MatchChangesNothing ==
    RunEnded /\ SomeEquivalent =>
        /\ fs = pre.fs
        /\ Restrict(confs, LifeboatsOf(confs)) = Restrict(pre.confs, LifeboatsOf(pre.confs))
        /\ hist.evicted = <<>>
        /\ hist.ts = 0
        /\ last.status = "ok" => hist.outcome = "matched"

\* a run found more lifeboats than max_lifeboats, one of them a match, and kept them all
C6_Witness ==
    /\ RunEnded
    /\ SomeEquivalent
    /\ hist.outcome = "matched"
    /\ Len(hist.L) > args.max_lifeboats
    /\ Cardinality(LifeboatsOf(confs)) = Len(hist.L)

\* an entry as the next run's get_bootctl_entries reads it from the disk
OnDisk(path, isDefault) == FromBootctl(path, EntryRoot(path), confs[path], isDefault)

\* C7: after a run that created a lifeboat, the lifeboat's descriptor is on the disk as
\* create_lifeboat built it, every payload copy has the content of the file it copies,
\* and the lifeboat read back from the disk is equivalent to the default entry read back
\* from the disk.
C7_NewIsEquivalent ==
    RunEnded /\ hist.outcome = "created" =>
        /\ hist.new[1].path \in DOMAIN confs
        /\ confs[hist.new[1].path] = ToConf(hist.new[1])
        /\ \A field \in FIELDS_WITH_FILES :
              /\ Len(hist.new[1][field]) = Len(hist.D[1][field])
              /\ \A i \in DOMAIN hist.D[1][field] :
                    /\ Abs(hist.D[1].root, hist.new[1][field][i]) \in DOMAIN fs
                    /\ fs[Abs(hist.D[1].root, hist.new[1][field][i])]
                          = fs[Abs(hist.D[1].root, hist.D[1][field][i])]
        /\ \A order \in EquivOrders :
              Equivalent(AtRest, fs, OnDisk(hist.new[1].path, FALSE),
                         OnDisk(hist.D[1].path, TRUE), order, <<>>).res = "true"

\* a run created a lifeboat beside an older one that holds another kernel
C7_Witness ==
    /\ RunEnded
    /\ hist.outcome = "created"
    /\ hist.D[1].root = "/efi"
    /\ \E p \in LifeboatsOf(fs) : p.pre = <<hist.ts>> /\ fs[p] = "v1"
    /\ \E p \in LifeboatsOf(fs) : p.pre # <<hist.ts>> /\ fs[p] = "v2"

(***************************************************************************)
(* Properties of a FileTracker scope of the client.  The scope has been    *)
(* left when its exit is recorded: Exit is what __exit__ was given and     *)
(* did, Before the disk when it was called, Scope the scope it closed.     *)
(***************************************************************************)
Left == pc \in {"client", "raising"} /\ hist.rollback # <<>>

Scope == hist.new[1]

Rolls(e) == e \notin {"none", "ChrootError"}

\* C8 (as the spec states it): the tracked files are deleted exactly when the scope is
\* left by an error that is not a ChrootError: a normal exit and a ChrootError attempt no
\* deletion and leave the files, any other error has every tracked file attempted, and
\* the error that leaves the scope is the one that entered __exit__.
C8_AsClaimed ==
    Left =>
        /\ ~Rolls(Exit.exc) => Exit.attempted = <<>> /\ Exit.after = Before.fs
        /\ Rolls(Exit.exc) => Exit.attempted = Exit.files
        /\ Exit.out = Exit.exc

\* C9: every tracked file is recorded with the root on top of Chroot.roots when it was
\* tracked, "/" when there was none; a rollback calls delete_file with that root, and,
\* when the environment refuses nothing, no file is left where it was when it was
\* tracked, whatever the roots and whether or not they are still entered.
C9_RootAtTrackTime ==
    Left =>
        /\ \A i \in DOMAIN Exit.files : Exit.files[i].root = Scope.tops[i]
        /\ \A i \in DOMAIN Exit.attempted : Exit.attempted[i] = Exit.files[i]
        /\ Rolls(Exit.exc) /\ Exit.hits = 0 =>
              /\ Exit.attempted = Exit.files
              /\ \A i \in DOMAIN Scope.made : Scope.made[i] \notin DOMAIN Exit.after

\* two files made and tracked under two roots, both left before the rollback, are gone
C9_Witness ==
    /\ Left
    /\ Rolls(Exit.exc)
    /\ Exit.hits = 0
    /\ Len(Exit.files) = 2
    /\ Exit.files[1].root = "/a"
    /\ Exit.files[2].root = "/b"
    /\ chroot.roots = <<>>
    /\ \A i \in 1..2 : Scope.made[i] \in DOMAIN Before.fs
    /\ \A i \in 1..2 : Scope.made[i] \notin DOMAIN Exit.after

\* C10 (as the spec states it): a rollback never raises: whatever fails in a deletion,
\* every tracked file is attempted and the error that triggered the rollback is the one
\* that leaves the scope.
C10_AsClaimed ==
    Left /\ Rolls(Exit.exc) =>
        /\ Len(Exit.attempted) = Len(Exit.files)
        /\ Exit.out = Exit.exc

(***************************************************************************)
(* Properties of the Chroot scopes of the client.                          *)
(***************************************************************************)
IsChroot(sc) == sc.kind = "chroot"

IsEntered(sc) == sc.kind = "chroot" /\ ~sc.skip

\* the root the client's open scopes ask for
ActiveRoot ==
    IF SelectSeq(scopes, IsChroot) = <<>> THEN "/"
    ELSE Last(SelectSeq(scopes, IsChroot)).path

\* the syscalls that change the process's root or working directory
RootChanging == {"fchdir", "chroot", "chdir"}

\* no syscall has failed so far
AllSucceeded ==
    pc \in {"client", "raising"} /\ faultsLeft = MaxFaults /\ exc # "ChrootError"

\* C11: while every syscall succeeds, after each enter and each exit of well-nested
\* Chroot scopes the process's root is the root of the innermost open scope, "/" when
\* none is open; the stack holds the base and one entry for each scope that was entered,
\* each with one open handle; and when the last scope is left the stack is empty, the
\* process is at its original root and no handle is open.
C11_WellNested ==
    AllSucceeded =>
        /\ chroot.root = ActiveRoot
        /\ chroot.cwd = ActiveRoot
        /\ Len(chroot.roots) =
              IF SelectSeq(scopes, IsEntered) = <<>> THEN 0
              ELSE Len(SelectSeq(scopes, IsEntered)) + 1
        /\ Cardinality(DOMAIN chroot.fds) = Len(chroot.roots)
        /\ SelectSeq(scopes, IsChroot) = <<>> => chroot = AtRest

\* the scope of /a/b, entered inside those of /a and of the unrelated /b, has just been
\* left, and the process is back in /b
C11_Witness ==
    /\ AllSucceeded
    /\ Len(scopes) = 2
    /\ scopes[1].path = "/a"
    /\ scopes[2].path = "/b"
    /\ trace # <<>>
    /\ trace[1] = [op |-> "close", arg |-> "/a/b"]
    /\ chroot.root = "/b"
    /\ Len(chroot.roots) = 3

\* root is the path on top of the stack, or the stack is empty and root is "/"
IsActive(root) ==
    \/ chroot.roots # <<>> /\ chroot.roots[Len(chroot.roots)].path = root
    \/ chroot.roots = <<>> /\ root = "/"

\* C12: entering the root that is on top of the stack, or "/" on an empty stack, makes
\* no syscall and changes neither the stack, the process's root nor the open handles,
\* and so does the exit that matches such an enter.
C12_NoOp ==
    [][/\ (/\ Len(scopes') = Len(scopes) + 1
           /\ IsChroot(scopes'[Len(scopes')])
           /\ IsActive(scopes'[Len(scopes')].path))
          => chroot' = chroot /\ trace' = <<>> /\ scopes'[Len(scopes')].skip
       /\ (/\ scopes # <<>>
           /\ scopes' = Front(scopes)
           /\ IsChroot(Last(scopes))
           /\ Last(scopes).skip)
          => chroot' = chroot /\ trace' = <<>>]_vars

\* the root /a was entered once and re-entered twice: one base and one entry on the stack
C12_Witness ==
    /\ pc = "client"
    /\ Len(scopes) = 3
    /\ \A i \in 1..3 : IsChroot(scopes[i]) /\ scopes[i].path = "/a"
    /\ ~scopes[1].skip /\ scopes[2].skip /\ scopes[3].skip
    /\ Len(chroot.roots) = 2
    /\ Cardinality(DOMAIN chroot.fds) = 2

\* C13 (as the spec states it): when a ChrootError leaves the body of a Chroot scope,
\* the exit of that scope makes no fchdir, chroot or chdir.
C13_AsClaimed ==
    [][(/\ pc = "raising"
        /\ exc = "ChrootError"
        /\ scopes # <<>>
        /\ scopes' = Front(scopes)
        /\ IsChroot(Last(scopes)))
       => \A i \in DOMAIN trace' : trace'[i].op \notin RootChanging]_vars

\* the stack agrees with the process: its top names the process's root, "/" when it is
\* empty, and every open handle is the handle of one of its entries
Consistent(ch) ==
    /\ ch.root = (IF ch.roots = <<>> THEN "/" ELSE ch.roots[Len(ch.roots)].path)
    /\ DOMAIN ch.fds = {ch.roots[i].fd : i \in DOMAIN ch.roots}

\* C14 (as the spec states it): when an enter fails with a ChrootError, wherever it
\* fails, the stack's top names the root the process is in and no open handle is
\* outside the stack.
C14_AsClaimed ==
    [][(/\ pc = "client"
        /\ pc' = "raising"
        /\ exc' = "ChrootError"
        /\ scopes' = scopes
        /\ Consistent(chroot))
       => Consistent(chroot')]_vars

(***************************************************************************)
(* Config.equivalent on its own, as the tests of equivalent call it: two   *)
(* entries, configs[1] and configs[2], over a filesystem that holds up to  *)
(* two kernels under each of the roots / and /efi.  The entries are        *)
(* compared, one way or the other; between two comparisons one field of    *)
(* one entry may be changed.  hist.match keeps every comparison made: the  *)
(* two entries as they were, and the result.                               *)
(***************************************************************************)
MaxCompares == 2

Kernel2 == LifeboatPath(Kernel, 1)

\* the values of an entry's linux field: none, one file, the other, both, one twice
LinuxChoices ==
    {<<>>, <<Kernel>>, <<Kernel2>>, <<Kernel, Kernel2>>, <<Kernel, Kernel>>}

Absent == "absent"

\* the filesystems: /vmlinuz is there; /lifeboat_1_vmlinuz and /efi/vmlinuz are absent,
\* a copy of it, or another kernel; /efi/lifeboat_1_vmlinuz is absent
EquivFs(k2, ek) ==
    LET all == [p \in {Kernel, Kernel2, Abs("/efi", Kernel)} |->
                   IF p = Kernel THEN "v1" ELSE IF p = Kernel2 THEN k2 ELSE ek]
    IN [p \in {q \in DOMAIN all : all[q] # Absent} |-> all[p]]

EquivEntry(root, linux, options) ==
    FromBootctl(LivePath(root), root,
                [EmptyConf EXCEPT !.title = <<"Arch">>, !.version = <<DefaultVersion>>,
                                  !.linux = linux, !.options = options],
                FALSE)

InitEquiv ==
    /\ \E k2 \in Contents \cup {Absent}, ek \in Contents \cup {Absent} :
          fs = EquivFs(k2, ek)
    /\ \E ra \in Esps, rb \in Esps, la \in LinuxChoices, lb \in LinuxChoices,
          oa \in {<<>>, <<"quiet">>} :
          configs = <<EquivEntry(ra, la, oa), EquivEntry(rb, lb, <<>>)>>
    /\ confs = <<>>
    /\ chroot = AtRest
    /\ DRY_RUN = FALSE
    /\ faultsLeft = 0
    /\ runsLeft = 0
    /\ pc = "entries"
    /\ args = NoArgs
    /\ default_config = <<>>
    /\ lifeboats = <<>>
    /\ cand = 0
    /\ create = NoCreate
    /\ tracker = <<>>
    /\ exc = "none"
    /\ pre = [fs |-> fs, confs |-> confs]
    /\ hist = NoHist
    /\ last = NoLast
    /\ scopes = <<>>
    /\ trace = <<>>

\* the record of one comparison
Compared(self, other, r) == [self |-> self, other |-> other, res |-> r.res]

\* configs[i].equivalent(configs[j]), the field set iterated in the given order
EquivCompare(i, j, order) ==
    /\ pc = "entries"
    /\ i # j
    /\ Len(hist.match) < MaxCompares
    /\ \E r \in {Equivalent(chroot, fs, configs[i], configs[j], order, <<>>)} :
          /\ chroot' = r.ch
          /\ exc' = IF r.res = "ChrootError" THEN "ChrootError" ELSE exc
          /\ hist' = [hist EXCEPT !.match = Append(@, Compared(configs[i], configs[j], r))]
    /\ UNCHANGED <<fs, confs, DRY_RUN, faultsLeft, runsLeft, pc, args, configs,
                   default_config, lifeboats, cand, create, tracker, pre, last, scopes,
                   trace>>

\* between two comparisons, one field of configs[i] gets the value v
EquivEdit(i, field, v) ==
    /\ pc = "entries"
    /\ Len(hist.match) = 1
    /\ configs \in {<<hist.match[1].self, hist.match[1].other>>,
                    <<hist.match[1].other, hist.match[1].self>>}
    /\ configs[i][field] # v
    /\ configs' = [configs EXCEPT ![i][field] = v]
    /\ UNCHANGED <<fs, confs, chroot, DRY_RUN, faultsLeft, runsLeft, pc, args,
                   default_config, lifeboats, cand, create, tracker, exc, pre, hist, last,
                   scopes, trace>>

EquivNext ==
    \/ \E i \in 1..2, j \in 1..2, order \in EquivOrders : EquivCompare(i, j, order)
    \/ \E i \in 1..2, field \in {"title", "version", "options"},
          v \in {<<"Arch">>, <<"quiet">>} : EquivEdit(i, field, v)
    \/ \E i \in 1..2, v \in LinuxChoices : EquivEdit(i, "linux", v)
    \/ \E i \in 1..2, ts \in {1} : EquivEdit(i, "path", LifeboatPath(LivePath(configs[i].root), ts))
    \/ \E i \in 1..2 : EquivEdit(i, "is_default", TRUE)

SpecEquiv == InitEquiv /\ [][EquivNext]_vars

(***************************************************************************)
(* Properties of Config.equivalent, on the comparisons made.               *)
(***************************************************************************)
Comparisons == {hist.match[i] : i \in DOMAIN hist.match}

\* every payload file entry c names is there under c's root
Readable(c) ==
    \A field \in FIELDS_WITH_FILES : \A i \in DOMAIN c[field] :
        Abs(c.root, c[field][i]) \in DOMAIN fs

\* the contents of the payload files c names in field, read under c's root
ContentsOf(c, field) == {fs[Abs(c.root, c[field][i])] : i \in DOMAIN c[field]}

\* C15 (as the spec states it): the comparison of two entries gives the same result
\* whichever of them it is called on.
C15_AsClaimed ==
    pc = "entries" =>
        \A x \in Comparisons, y \in Comparisons :
            x.self = y.other /\ x.other = y.self => x.res = y.res

\* C16 (as the spec states it): a comparison is false whenever a payload file that one
\* of the two entries names is missing under that entry's root.
C16_AsClaimed ==
    pc = "entries" =>
        \A x \in Comparisons :
            ~Readable(x.self) \/ ~Readable(x.other) => x.res = "false"

\* C17 (as the spec states it): two entries whose payload files are all there and whose
\* other compared fields are equal are equivalent exactly when, for each payload field,
\* the files they name have the same set of contents.
C17_AsClaimed ==
    pc = "entries" =>
        \A x \in Comparisons :
            (/\ Readable(x.self)
             /\ Readable(x.other)
             /\ \A field \in LiteralFields : x.self[field] = x.other[field])
            => (x.res = "true" <=>
                   \A field \in FIELDS_WITH_FILES :
                       ContentsOf(x.self, field) = ContentsOf(x.other, field))

\* entries a and b are equal in every field outside F
SameExcept(a, b, F) == \A field \in DOMAIN a \ F : a[field] = b[field]

\* between the two comparisons exactly the given field of one entry was changed
ChangedOnly(field) ==
    \/ /\ hist.match[1].self[field] # hist.match[2].self[field]
       /\ SameExcept(hist.match[1].self, hist.match[2].self, {field})
       /\ hist.match[1].other = hist.match[2].other
    \/ /\ hist.match[1].other[field] # hist.match[2].other[field]
       /\ SameExcept(hist.match[1].other, hist.match[2].other, {field})
       /\ hist.match[1].self = hist.match[2].self

\* the entries of the two comparisons differ in title, version, path and is_default only
ChangedIgnored ==
    /\ SameExcept(hist.match[1].self, hist.match[2].self,
                  {"title", "version", "path", "is_default"})
    /\ SameExcept(hist.match[1].other, hist.match[2].other,
                  {"title", "version", "path", "is_default"})

\* C18 (as the spec states it): a change of title, version, path or is_default never
\* changes the result of the comparison, and a change of any other content field of one
\* of two equivalent entries makes them non-equivalent.
C18_AsClaimed ==
    pc = "entries" /\ Len(hist.match) = 2 =>
        /\ ChangedIgnored => hist.match[1].res = hist.match[2].res
        /\ \A field \in CONF_FIELDS \ {"title", "version"} :
              ChangedOnly(field) /\ hist.match[1].res = "true"
                  => hist.match[2].res = "false"

\* C18 (amended): a change of title, version, path or is_default never changes the
\* result of the comparison, and a change of any field that is compared by value, such
\* as options, of one of two equivalent entries makes them non-equivalent.
C18_IgnoredFields ==
    pc = "entries" /\ Len(hist.match) = 2 =>
        /\ ChangedIgnored => hist.match[1].res = hist.match[2].res
        /\ \A field \in LiteralFields :
              ChangedOnly(field) /\ hist.match[1].res = "true"
                  => hist.match[2].res = "false"

\* two equivalent entries that name a kernel are still equivalent after the title of one
\* was changed
C18_Witness ==
    /\ pc = "entries"
    /\ Len(hist.match) = 2
    /\ ChangedOnly("title")
    /\ hist.match[1].self.linux # <<>>
    /\ hist.match[1].res = "true"
    /\ hist.match[2].res = "true"

(***************************************************************************)
(* Properties of the checks main makes before it looks for a match.        *)
(***************************************************************************)
\* a run of main has started: it is under way or it has ended
Started == pc # "idle" \/ hist.outcome # "none"

\* ChrootError and Md5Error are subclasses of LifeboatError
IsLifeboatError(e) == e \in {"LifeboatError", "ChrootError", "Md5Error"}

\* the bootctl entries of the run hold no entry whose path is the default path
DefaultNotFound ==
    \A c \in Entries(pre.confs) : c.path # args.default_config_path

\* the run has changed no file, and has deleted and created nothing
NothingMutated ==
    /\ fs = pre.fs
    /\ confs = pre.confs
    /\ hist.evicted = <<>>
    /\ hist.ts = 0

\* C19 (as the spec states it): a run of main whose retention limit is not greater than
\* 1, whose default entry is not among the entries, or whose default entry is a
\* lifeboat, changes no file and ends with a LifeboatError.
C19_AsClaimed ==
    (/\ Started
     /\ \/ ~(args.max_lifeboats > 1)
        \/ DefaultNotFound
        \/ IsLifeboatPath(args.default_config_path))
    => /\ NothingMutated
       /\ RunEnded => IsLifeboatError(exc)

\* C20 (as the spec states it): a run of main whose max_lifeboats is not greater than 1
\* evicts no lifeboat and creates none, and ends with a LifeboatError.
C20_AsClaimed ==
    Started /\ ~(args.max_lifeboats > 1) =>
        /\ hist.evicted = <<>>
        /\ hist.ts = 0
        /\ RunEnded => IsLifeboatError(exc)

(***************************************************************************)
(* An installation with the lifeboats of two boot entries: those of        *)
(* arch.conf and those of lts.conf, an entry that is no longer installed.  *)
(* Lifeboats of the two entries can carry the same timestamp; the lifeboat *)
(* of arch.conf made at 1 holds the kernel that is live.  The live         *)
(* descriptor may lack its sort key, its version, or both.  The            *)
(* environment refuses nothing.                                            *)
(***************************************************************************)
KernelLts == P("/", "vmlinuz-lts")

LtsPath == P(EntriesDir("/"), "lts.conf")

\* the descriptor of the lifeboat made of lts.conf at ts
LtsLifeboat(ts) ==
    [EmptyConf EXCEPT
        !.title = <<"LTS @" \o PrettyDate(ts)>>,
        !.version = <<"-" \o DefaultVersion \o "-" \o ToString(ts)>>,
        !.sort_key = <<DefaultSortKey>>,
        !.linux = <<LifeboatPath(KernelLts, ts)>>]

TiesFs(Ta, Tl) ==
    [p \in {Kernel, Initrd}
           \cup {LifeboatPath(Kernel, t) : t \in Ta}
           \cup {LifeboatPath(Initrd, t) : t \in Ta}
           \cup {LifeboatPath(KernelLts, t) : t \in Tl} |->
        IF p.base = Initrd.base THEN "ird"
        ELSE IF p.base = KernelLts.base THEN "lts"
        ELSE IF p.pre = <<>> \/ Head(p.pre) = 1 THEN "v1" ELSE "v2"]

\* the live descriptor, with or without its sort key and its version
LiveWith(sk, ver) ==
    [LiveConf(TRUE) EXCEPT !.sort_key = IF sk THEN @ ELSE <<>>,
                           !.version = IF ver THEN @ ELSE <<>>]

TiesConfs(Ta, Tl, live) ==
    [p \in {LivePath("/")} \cup {LifeboatPath(LivePath("/"), t) : t \in Ta}
           \cup {LifeboatPath(LtsPath, t) : t \in Tl} |->
        IF p.pre = <<>> THEN live
        ELSE IF p.base = LtsPath.base THEN LtsLifeboat(Head(p.pre))
        ELSE OldLifeboat("/", Head(p.pre))]

\* every variable but fs and confs, before the first run of main
AtStart(dry, faults, runs) ==
    /\ chroot = AtRest
    /\ DRY_RUN = dry
    /\ faultsLeft = faults
    /\ runsLeft = runs
    /\ pc = "idle"
    /\ args = NoArgs
    /\ configs = <<>>
    /\ default_config = <<>>
    /\ lifeboats = <<>>
    /\ cand = 0
    /\ create = NoCreate
    /\ tracker = <<>>
    /\ exc = "none"
    /\ pre = [fs |-> fs, confs |-> confs]
    /\ hist = NoHist
    /\ last = NoLast
    /\ scopes = <<>>
    /\ trace = <<>>

InitTies ==
    /\ \E Ta \in SUBSET InitTs, Tl \in SUBSET InitTs, sk \in BOOLEAN, ver \in BOOLEAN :
          /\ fs = TiesFs(Ta, Tl)
          /\ confs = TiesConfs(Ta, Tl, LiveWith(sk, ver))
    /\ AtStart(FALSE, 0, 1)

SpecTies == InitTies /\ [][Next]_vars

(***************************************************************************)
(* Properties of the order of the lifeboats.                               *)
(***************************************************************************)
\* the lifeboats are in the order of their timestamps, newest first
Descending(L) ==
    \A i, j \in DOMAIN L : i < j => Timestamp(L[i].path) >= Timestamp(L[j].path)

IsPrefix(s, t) == Len(s) <= Len(t) /\ \A i \in DOMAIN s : s[i] = t[i]

\* lifeboat x is equivalent to the default entry of the run, on the disk as it is
EquivNow(x) ==
    Equivalent(AtRest, fs, x, hist.D[1], SelectSeq(FieldSeq, IsCompared),
               [i \in 1..Md5Calls(x, hist.D[1]) |-> NoFault]).res = "true"

\* the first lifeboat of s that is equivalent to the default entry is x
FirstMatch(s, x) ==
    \E i \in DOMAIN s :
        /\ s[i] = x
        /\ \A j \in 1..(i - 1) : ~EquivNow(s[j])

\* C21 (as the spec states it): in a run with a retention limit greater than 1 the
\* lifeboats are compared and evicted newest first, and the lifeboat reported as the
\* match and the lifeboats evicted are the same whatever the order in which the
\* enumerator returned the lifeboats.
C21_AsClaimed ==
    Started /\ hist.D # <<>> /\ args.max_lifeboats > 1 =>
        /\ Descending(hist.L)
        /\ \A e \in Orderings(Range(hist.L)) :
              /\ IsPrefix(hist.evicted, Reverse(SortReverse(e)))
              /\ hist.match # <<>> => FirstMatch(SortReverse(e), hist.match[1])

(***************************************************************************)
(* Properties of create_lifeboat.                                          *)
(***************************************************************************)
\* the payload files of field are those of D, each renamed, in D's order, and each new
\* file holds what the file it copies holds
CopiedField(D, n, ts, field) ==
    /\ Len(n[field]) = Len(D[field])
    /\ \A i \in DOMAIN D[field] :
          /\ n[field][i] = [D[field][i] EXCEPT !.pre = <<ts>> \o @]
          /\ Abs(D.root, n[field][i]) \in DOMAIN fs
          /\ fs[Abs(D.root, n[field][i])] = Before.fs[Abs(D.root, D[field][i])]

\* n is the lifeboat of D made at ts
LifeboatOf(D, n, ts) ==
    /\ n.path = [D.path EXCEPT !.pre = <<ts>> \o @]
    /\ \A field \in FIELDS_WITH_FILES : CopiedField(D, n, ts, field)
    /\ n.title = <<(IF D.title = <<>> THEN Basename(D.path) ELSE D.title[1])
                   \o " @" \o PrettyDate(ts)>>
    /\ n.version = <<"-" \o D.version[1] \o "-" \o ToString(ts)>>
    /\ \A field \in LiteralFields \cup {"root"} : n[field] = D[field]

Doubled(c, path) == [c EXCEPT ![path].initrd = @ \o @]

InitDry ==
    /\ \E esp \in Esps, complete \in BOOLEAN, twice \in BOOLEAN, T \in SUBSET InitTs :
         \E old \in [T -> Contents \cup {Gone}] :
            /\ fs = InitFs(esp, old)
            /\ confs = IF twice THEN Doubled(InitConfs(esp, complete, old), LivePath(esp))
                       ELSE InitConfs(esp, complete, old)
    /\ AtStart(TRUE, 0, MaxRuns)

\* what is kept of a run that ended
RunRecord == [args |-> args, exc |-> exc, hist |-> hist]

\* the same installation again, now without --dry-run (lines 372-374)
Redo ==
    /\ pc = "idle"
    /\ DRY_RUN
    /\ hist.outcome # "none"
    /\ runsLeft > 0
    /\ DRY_RUN' = FALSE
    /\ fs' = pre.fs
    /\ confs' = pre.confs
    /\ trace' = <<RunRecord>>
    /\ UNCHANGED <<chroot, faultsLeft, runsLeft, pc, args, configs, default_config,
                   lifeboats, cand, create, tracker, exc, pre, hist, last, scopes>>

DryNext ==
    \/ MainNext
    \/ Redo

SpecDry == InitDry /\ [][DryNext]_vars

(***************************************************************************)
(* Properties of dry runs.                                                 *)
(***************************************************************************)
\* C23 (as the spec states it): during and after a dry run of main every descriptor and
\* every payload file is as it was when the run started, and there is no new file.
C23_AsClaimed ==
    Started /\ DRY_RUN => fs = pre.fs /\ confs = pre.confs

(***************************************************************************)
(* Properties of the default entry's descriptor.                           *)
(***************************************************************************)
\* the run was given the path of a live entry that exists
HasDefault ==
    /\ Started
    /\ args.default_config_path \in DOMAIN pre.confs
    /\ ~IsLifeboatPath(args.default_config_path)

\* the default entry's descriptor as it was when the run started, and as it is
DefaultBefore == pre.confs[args.default_config_path]
DefaultNow == confs[args.default_config_path]

Filled(field, default) ==
    IF DefaultBefore[field] = <<>> THEN <<default>> ELSE DefaultBefore[field]

Evicting == Started /\ hist.evicted # <<>> /\ hist.ts = 0

OnDiskNow(call) ==
    Abs(call.root, call.path) \in DOMAIN fs \cup DOMAIN confs

\* every file of every evicted lifeboat is gone, or its removal failed
EvictedGone ==
    \A i \in DOMAIN hist.evicted :
        \A call \in Range(RemoveCalls(hist.evicted[i], <<"linux", "initrd", "efi">>)) :
            ~OnDiskNow(call) \/ call \in Range(hist.failed)

\* the removals the environment refused: the file is still there
RefusedRemovals == {i \in DOMAIN hist.failed : OnDiskNow(hist.failed[i])}

\* C26 (as the spec states it): whatever fails while the files of an evicted lifeboat
\* are deleted, the run goes on: every file of the lifeboat is removed or its failure
\* recorded, and the run is still on its way to create_lifeboat.
C26_AsClaimed ==
    Evicting => pc = "evict" /\ EvictedGone

\* C26 (amended): a removal that fails while the files of an evicted lifeboat are
\* deleted is swallowed, and the run goes on to the other files and to create_lifeboat;
\* only a ChrootError of the Chroot scope around a removal ends the run during the
\* eviction.  A run that then creates its lifeboat ends without an error.
C26_RemovalSwallowed ==
    /\ Evicting =>
          /\ (pc = "evict" /\ exc = "none") \/ (RunEnded /\ exc = "ChrootError")
          /\ Cardinality(RefusedRemovals) = MaxFaults - faultsLeft
                => pc = "evict" /\ EvictedGone
    /\ RunEnded /\ hist.outcome = "created" => exc = "none" /\ last.status = "ok"

\* the removal of a file of an evicted lifeboat was refused, the file is still there,
\* and the run created its lifeboat and ended without an error
C26_Witness ==
    /\ RunEnded
    /\ hist.outcome = "created"
    /\ hist.evicted # <<>>
    /\ \E i \in DOMAIN hist.failed :
          /\ OnDiskNow(hist.failed[i])
          /\ hist.failed[i].path # hist.evicted[1].path
    /\ hist.evicted[1].path \notin DOMAIN confs
    /\ exc = "none"


(***************************************************************************)
(* Chroot.__enter__ from inside another scope.  A step of the client is an *)
(* enter when it adds a Chroot scope, or raises without a raise of the     *)
(* body; it switches unless the scope it adds was skipped.                 *)
(***************************************************************************)
Entered == /\ Len(scopes') = Len(scopes) + 1
           /\ Last(scopes').kind = "chroot"

EnterFailed == /\ scopes' = scopes
               /\ pc' = "raising"
               /\ faultsLeft' # faultsLeft \/ chroot' # chroot \/ trace' # trace

Switching == /\ pc = "client"
             /\ Len(chroot.roots) > 1
             /\ (Entered /\ ~Last(scopes').skip) \/ EnterFailed

Call(op, arg) == [op |-> op, arg |-> arg]

\* the syscalls of log up to its first open
BeforeOpen(log) ==
    SelectSeq([i \in DOMAIN log |-> [call |-> log[i],
                                      opened |-> \E j \in 1..i : log[j].op = "open"]],
              LAMBDA e : ~e.opened)

\* C27: an enter that switches root from inside another scope first goes
\* back to the process's real root through the handle at the bottom of the
\* stack, and only then opens the target: the directory it opens, and the
\* root it ends in, is the target as seen from the real root.
C27_OuterFirst ==
    [][Switching =>
          /\ chroot.fds[chroot.roots[1].fd] = "/"
          /\ \A i \in DOMAIN trace' : trace'[i].op = "open" =>
                 /\ BeforeOpen(trace') = <<[call |-> Call("fchdir", "/"), opened |-> FALSE],
                                         [call |-> Call("chroot", "/"), opened |-> FALSE]>>
                 /\ Entered => trace'[i].arg = Last(scopes').path
          /\ Entered =>
                 /\ trace' = <<Call("fchdir", "/"), Call("chroot", "/"),
                               Call("open", Last(scopes').path),
                               Call("fchdir", Last(scopes').path),
                               Call("chroot", Last(scopes').path),
                               Call("chdir", Last(scopes').path)>>
                 /\ chroot'.root = Last(scopes').path
                 /\ Last(chroot'.roots).path = Last(scopes').path]_vars

\* "/b" was entered from inside "/a", where "/a/b" exists as well
C27_Witness ==
    /\ pc = "client"
    /\ Len(scopes) = 2
    /\ scopes[1].kind = "chroot" /\ scopes[1].path = "/a"
    /\ scopes[2].kind = "chroot" /\ scopes[2].path = "/b" /\ ~scopes[2].skip
    /\ Len(chroot.roots) = 3
    /\ chroot.root = "/b"
    /\ Len(trace) = 6 /\ trace[1] = Call("fchdir", "/")


(***************************************************************************)
(* The shared state between runs of main: Chroot.roots with the handles it *)
(* keeps, and the files of a FileTracker.                                  *)
(***************************************************************************)
Between == pc = "idle"

\* C28: when a run of main starts and when it ends, with or without an
\* error, the Chroot stack is empty, no directory handle is kept open, the
\* process is at its real root, and no FileTracker holds files.
C28_AsClaimed ==
    Between => /\ chroot.roots = <<>>
               /\ chroot.fds = <<>>
               /\ chroot.root = "/"
               /\ tracker = <<>>


(***************************************************************************)
(* The scopes of create_lifeboat.  Its FileTracker scope is open from      *)
(* MainCreate until main is left; a step at "copy" that tracks a file has  *)
(* copied it, and the step that leaves "write" has built the lifeboat's    *)
(* Config, which writes the descriptor.                                    *)
(***************************************************************************)
CopyStep == pc = "copy" /\ tracker' # tracker

WriteStep == pc = "write" /\ pc' # "write"

\* the copies new_args lists, as tracked under the default entry's root
CopiesOf(na, root) ==
    UNION {{[path |-> na[field][i], root |-> root] : i \in DOMAIN na[field]} :
              field \in {"linux", "initrd", "efi"}}

\* the step is inside the FileTracker scope that holds this creation's copies
InTrackerScope == /\ create.ts = hist.ts
                  /\ Range(tracker) = CopiesOf(create.new_args, DC.root)

CopyUnderRoot ==
    CopyStep => /\ chroot.root = DC.root
                /\ InTrackerScope
                /\ \E dest \in CopiesOf(create'.new_args, DC.root) :
                       /\ tracker' = Append(tracker, dest)
                       /\ Abs(DC.root, dest.path) \in DOMAIN fs'

\* C29 as claimed: every payload copy and the descriptor write of
\* create_lifeboat happen with the default entry's root as the active
\* Chroot root, inside the one FileTracker scope.
C29_AsClaimed ==
    [][/\ CopyUnderRoot
       /\ WriteStep => chroot.root = DC.root /\ InTrackerScope]_vars

\* C29: every payload copy of create_lifeboat happens with the default
\* entry's root as the active Chroot root; the descriptor is written after
\* that Chroot scope is left, with the process back at its real root and the
\* Chroot stack empty; copies and write are inside the one FileTracker
\* scope, which holds every copy when the descriptor is written.
C29_ScopesOfCreate ==
    [][/\ CopyUnderRoot
       /\ WriteStep => /\ chroot = AtRest
                       /\ InTrackerScope
                       /\ Len(tracker) = Len(FilesOf(DC, <<"linux", "initrd", "efi">>))
                       /\ pc' = "unwind" => tracker' = tracker]_vars

\* a lifeboat of an entry of root "/efi" was made: its payload was copied
\* inside "/efi", its descriptor written from the real root
C29_Witness ==
    /\ RunEnded
    /\ hist.outcome = "created"
    /\ hist.D[1].root = "/efi"
    /\ hist.new[1].linux # <<>>
    /\ \A i \in DOMAIN hist.new[1].linux :
           Abs("/efi", hist.new[1].linux[i]) \in DOMAIN fs \ DOMAIN pre.fs
    /\ hist.new[1].path \in DOMAIN confs \ DOMAIN pre.confs
    /\ chroot = AtRest


(***************************************************************************)
(* A dry run and the real run after it.  Redo puts the files back as they  *)
(* were before the dry run and keeps the dry run's record in trace; the    *)
(* two runs are of the same case when the real run is given the same       *)
(* arguments and now() returns the same time, one later than every         *)
(* lifeboat on disk.                                                       *)
(***************************************************************************)
DryRecord == trace[1]

SameClock == hist.ts = 0 \/ DryRecord.hist.ts = 0 \/ hist.ts = DryRecord.hist.ts

FreshClock == \A p \in DOMAIN pre.confs : p.pre # <<>> /\ hist.ts # 0 => Head(p.pre) < hist.ts

Replayed ==
    /\ RunEnded
    /\ ~DRY_RUN
    /\ trace # <<>>
    /\ DryRecord.args = args
    /\ SameClock
    /\ FreshClock

\* C30: from the same files and arguments a dry run and the real run decide
\* the same: the same match, the same lifeboats evicted in the same order,
\* the same copies and descriptor planned, and the same outcome, success or
\* the same error.
C30_AsClaimed ==
    Replayed => /\ hist.L = DryRecord.hist.L
                /\ hist.D = DryRecord.hist.D
                /\ hist.match = DryRecord.hist.match
                /\ hist.evicted = DryRecord.hist.evicted
                /\ hist.new = DryRecord.hist.new
                /\ hist.outcome = DryRecord.hist.outcome
                /\ exc = DryRecord.exc


(***************************************************************************)
(* Installations where a copy of create_lifeboat is refused: a payload     *)
(* file of the live entry may be missing (present lists those that exist), *)
(* and a file may be in the place of a copy to be made (stray: an initrd   *)
(* copy of that timestamp without a descriptor, beside the lifeboats of    *)
(* old, whose copies are in place too).                                    *)
(***************************************************************************)
CopyFs(esp, old, present, stray) ==
    [p \in {Abs(esp, f) : f \in present}
           \cup {Abs(esp, LifeboatPath(Kernel, t)) : t \in DOMAIN old}
           \cup {Abs(esp, LifeboatPath(Initrd, t)) : t \in DOMAIN old \cup stray} |->
        IF p.base = Initrd.base THEN "ird"
        ELSE IF p.pre = <<>> THEN "v1" ELSE old[Head(p.pre)]]

InitCopy ==
    /\ \E esp \in Esps, present \in SUBSET {Kernel, Initrd}, T \in SUBSET InitTs :
         \E old \in [T -> Contents], stray \in SUBSET (InitTs \ T) :
            /\ fs = CopyFs(esp, old, present, stray)
            /\ confs = InitConfs(esp, TRUE, old)
    /\ AtStart(FALSE, MaxFaults, 1)

SpecCopy == InitCopy /\ [][Next]_vars

\* the copy create_lifeboat makes next, as copy_file sees it inside the scope
NextSrc == Abs(chroot.root, Head(create.todo).file)

NextDest == Abs(chroot.root, LifeboatPath(Head(create.todo).file, create.ts))

OnDiskPath(p) == p \in DOMAIN fs \cup DOMAIN confs

Copying == pc = "copy" /\ create.todo # <<>>

SrcMissing == Copying /\ ~OnDiskPath(NextSrc)

DestExists == Copying /\ OnDiskPath(NextDest)

\* C31: copy_file never overwrites.  A copy whose destination exists or
\* whose source does not exist raises a LifeboatError and changes no file;
\* no copy changes or removes a file that exists; and the error is fatal to
\* the creation in progress: create_lifeboat is left with the exception (a
\* ChrootError when leaving the Chroot scope fails on the way out), no
\* descriptor is written and main ends in failure.
C31_NeverOverwrites ==
    [][/\ SrcMissing \/ DestExists =>
             /\ fs' = fs
             /\ confs' = confs
             /\ tracker' = tracker
             /\ pc' = "unwind"
             /\ exc' = IF faultsLeft' = faultsLeft THEN "LifeboatError" ELSE "ChrootError"
       /\ Copying => \A p \in DOMAIN fs : p \in DOMAIN fs' /\ fs'[p] = fs[p]
       /\ pc = "unwind" =>
             /\ pc' = "idle"
             /\ exc' # "none"
             /\ hist'.outcome = "failed"
             /\ hist'.new = <<>> => LifeboatPath(DC.path, create.ts) \notin DOMAIN confs'
                                       \ DOMAIN pre.confs]_vars

\* a run ended after a copy was refused because its destination existed: the
\* file in its place is as it was, and no lifeboat was made
C31_Witness ==
    /\ RunEnded
    /\ exc = "LifeboatError"
    /\ hist.outcome = "failed"
    /\ hist.ts # 0
    /\ hist.new = <<>>
    /\ \E p \in DOMAIN pre.fs : /\ p.pre = <<hist.ts>>
                                 /\ p \in DOMAIN fs
                                 /\ fs[p] = pre.fs[p]
    /\ LifeboatPath(hist.D[1].path, hist.ts) \notin DOMAIN confs
    /\ Abs(hist.D[1].root, Kernel) \in DOMAIN fs


(***************************************************************************)
(* The lifeboats a run found, and what is left of them when it ends.  A    *)
(* lifeboat is its descriptor and the payload copies the descriptor names. *)
(***************************************************************************)
LifeboatsBefore == {p \in DOMAIN pre.confs : IsLifeboatPath(p)}

PayloadOf(c) == Range(c.linux) \cup Range(c.initrd) \cup Range(c.efi)

\* the lifeboat at p is as it was before the run
Intact(p) ==
    /\ p \in DOMAIN confs
    /\ confs[p] = pre.confs[p]
    /\ \A f \in {Abs(EntryRoot(p), g) : g \in PayloadOf(pre.confs[p])} :
           f \in DOMAIN pre.fs => f \in DOMAIN fs /\ fs[f] = pre.fs[f]

EvictedPaths == {hist.evicted[i].path : i \in DOMAIN hist.evicted}

NotCreated == RunEnded /\ hist.outcome # "created"

\* C32 as claimed: a run that ends without a new lifeboat leaves every
\* lifeboat that existed before it.
C32_AsClaimed == NotCreated => \A p \in LifeboatsBefore : Intact(p)

\* C32: a run that ends without a new lifeboat leaves every lifeboat that
\* existed before it, except those it evicted before it called
\* create_lifeboat: the evictions come first and are not undone.  The
\* evicted ones are the oldest, and no more than make room for the new one.
\* This is so when now() is later than the timestamp of every lifeboat on
\* disk.
C32_OnlyEvictedLost ==
    NotCreated /\ FreshClock =>
       /\ \A p \in LifeboatsBefore \ EvictedPaths : Intact(p)
       /\ EvictedPaths \subseteq LifeboatsBefore
       /\ \A p \in LifeboatsBefore \ EvictedPaths, q \in EvictedPaths :
              Head(q.pre) <= Head(p.pre)
       /\ hist.evicted # <<>> =>
              Cardinality(LifeboatsBefore) - Len(hist.evicted) >= args.max_lifeboats - 1

\* the creation failed after an eviction: the newer lifeboat is as it was
C32_Witness ==
    /\ NotCreated
    /\ FreshClock
    /\ hist.ts # 0
    /\ hist.evicted # <<>>
    /\ hist.evicted[1].path \notin DOMAIN confs
    /\ \E p \in LifeboatsBefore \ EvictedPaths : Intact(p)


(***************************************************************************)
(* Lifeboats whose descriptor names a payload file that is not on disk.    *)
(***************************************************************************)
Missing(c, files, p) ==
    /\ p \in DOMAIN c
    /\ IsLifeboatPath(p)
    /\ \E g \in PayloadOf(c[p]) : Abs(EntryRoot(p), g) \notin DOMAIN files

Dangling(p) == Missing(confs, fs, p)

DanglingBefore(p) == Missing(pre.confs, pre.fs, p)

\* C33: when a run of main ends, every lifeboat descriptor on disk names
\* only payload files that exist under its root, whatever failed during the
\* run (a lifeboat that lacked a payload before the run is not counted).
C33_AsClaimed ==
    RunEnded => \A p \in DOMAIN confs : ~DanglingBefore(p) => ~Dangling(p)


(***************************************************************************)
(* The payload files of the live default entry, as they were when the run  *)
(* started.  Every lifeboat of Init is one an earlier run made, and no     *)
(* live payload file has a lifeboat's name.                                *)
(***************************************************************************)
LivePayload ==
    IF args.default_config_path \in DOMAIN pre.confs
    THEN {Abs(EntryRoot(args.default_config_path), g) :
             g \in PayloadOf(pre.confs[args.default_config_path])} \cap DOMAIN pre.fs
    ELSE {}

\* C34: no run of main deletes, truncates or overwrites a payload file of
\* the live default entry: the files a run adds are copies named
\* lifeboat_<t>_ for its own t, the files it removes are lifeboat copies,
\* and every other file keeps its content.
C34_LivePayloadKept ==
    Started =>
       /\ \A f \in LivePayload : f \in DOMAIN fs /\ fs[f] = pre.fs[f]
       /\ \A f \in DOMAIN fs \ DOMAIN pre.fs : f.pre = <<hist.ts>> /\ hist.ts # 0
       /\ \A f \in DOMAIN pre.fs \ DOMAIN fs : IsLifeboatPath(f)
       /\ \A f \in DOMAIN fs \cap DOMAIN pre.fs : ~IsLifeboatPath(f) => fs[f] = pre.fs[f]

\* a run evicted a lifeboat, copied a payload file and rolled the copy back:
\* the live kernel and initrd are as they were
C34_Witness ==
    /\ RunEnded
    /\ hist.evicted # <<>>
    /\ \E f \in DOMAIN pre.fs \ DOMAIN fs : f.pre = <<Head(hist.evicted[1].path.pre)>>
    /\ hist.rollback # <<>>
    /\ hist.rollback[1].attempted # <<>>
    /\ hist.rollback[1].files # <<>>
    /\ Cardinality(LivePayload) = 2
    /\ \A f \in LivePayload : f \in DOMAIN fs /\ fs[f] = pre.fs[f]

=============================================================================
